---- MODULE Spec2Model ----
(***************************************************************************)
(* A model of questie-converter.py: the conversion of a Questie Lua quest  *)
(* database (a text document) into rows of a relational schema.            *)
(*                                                                         *)
(* Text is modelled as a sequence of one-character strings, so that the    *)
(* scanners, the regular expressions and the conversions of the program    *)
(* are computed character by character, as the program computes them.      *)
(* A word the program never looks into (a keyword of the document, a field *)
(* name, the name of a quest) is one symbol of the sequence.                *)
(* A Python value is a tagged record: None, an int, a str or a list.       *)
(***************************************************************************)
EXTENDS Integers, Sequences, FiniteSets, TLC

VARIABLES
    pc,           \* position of the run
    lua_content,  \* main: the text of the input document
    quest_keys,   \* main: the field map returned by parse_lua_questKeys
    quests,       \* main: the records returned by extract_quests, in dict order
    sql,          \* generate_insert_sql: the statements appended so far
    cursor,       \* insert_quest_data: the statements executed so far
    position,     \* the number of records the mapping loop has processed
    errors,       \* the exceptions raised while mapping a record: id, error, key
    raised,       \* the exception that ended the run, "none" when there is none
    output,       \* main: the SQL text written to stdout or to the output file
    conn,         \* main: the database connection and its transaction
    body,         \* tokenizer runs: the brace body handed to a tokenizer
    values,       \* tokenizer runs: the token list of extract_quests
    parts,        \* tokenizer runs: the token list of extract_nested_array
    splits,       \* tokenizer runs: the positions of the commas that split
    processed_values, \* tokenizer runs: the typed fields of extract_quests
    result,       \* tokenizer runs: the list returned by extract_nested_array
    nested_str,   \* resolver runs: the value handed to extract_ids_from_nested_string
    index,        \* resolver runs: the slot
    ids           \* resolver runs: the returned list

vars == <<pc, lua_content, quest_keys, quests, sql, cursor, position, errors,
          raised, output, conn, body, values, parts, splits, processed_values,
          result, nested_str, index, ids>>

(***************************************************************************)
(* Python values.                                                          *)
(***************************************************************************)
None == [k |-> "None"]
PyInt(n) == [k |-> "int", i |-> n]
PyStr(s) == [k |-> "str", s |-> s]
PyList(l) == [k |-> "list", l |-> l]

IsNone(v) == v.k = "None"
IsInt(v) == v.k = "int"
IsStr(v) == v.k = "str"
IsList(v) == v.k = "list"

\* Python truth value of an object: None, 0, "" and [] are false.
Truthy(v) ==
    CASE IsNone(v) -> FALSE
      [] IsInt(v) -> v.i # 0
      [] IsStr(v) -> Len(v.s) > 0
      [] IsList(v) -> Len(v.l) > 0

(***************************************************************************)
(* Characters and the str methods the program uses.                        *)
(***************************************************************************)
QUOTE == "\""
BACKSLASH == "\\"
Whitespace == {" ", "\n", "\t"}
Digits == {"0", "1", "2", "3", "4", "5", "6", "7", "8", "9"}

DigitVal(c) ==
    CASE c = "0" -> 0 [] c = "1" -> 1 [] c = "2" -> 2 [] c = "3" -> 3
      [] c = "4" -> 4 [] c = "5" -> 5 [] c = "6" -> 6 [] c = "7" -> 7
      [] c = "8" -> 8 [] c = "9" -> 9

\* s[a:b] of Python for 0 <= a and b counted from the start (0-based, b excluded).
Slice(s, a, b) == SubSeq(s, a + 1, b)

\* str.startswith / str.endswith
StartsWith(s, p) == Len(s) >= Len(p) /\ SubSeq(s, 1, Len(p)) = p
EndsWith(s, p) == Len(s) >= Len(p) /\ SubSeq(s, Len(s) - Len(p) + 1, Len(s)) = p

\* str.strip(): leading and trailing whitespace removed.
RECURSIVE LStrip(_)
LStrip(s) ==
    IF s # <<>> /\ Head(s) \in Whitespace THEN LStrip(Tail(s)) ELSE s

RECURSIVE RStrip(_)
RStrip(s) ==
    IF s # <<>> /\ s[Len(s)] \in Whitespace
    THEN RStrip(SubSeq(s, 1, Len(s) - 1)) ELSE s

Strip(s) == RStrip(LStrip(s))

\* str.isdigit(): non-empty and every character a digit.
IsDigit(s) == Len(s) > 0 /\ \A i \in 1..Len(s) : s[i] \in Digits

\* int(s) for a string of digits.
RECURSIVE IntOfDigits(_)
IntOfDigits(s) ==
    IF s = <<>> THEN 0
    ELSE 10 * IntOfDigits(SubSeq(s, 1, Len(s) - 1)) + DigitVal(s[Len(s)])

(***************************************************************************)
(* extract_quests: the scan that splits the body of one record into        *)
(* tokens, and the conversion of each token.                               *)
(* splits lists the positions of the commas at which a token was flushed;  *)
(* the program keeps no such list, it is kept here to observe the scan.    *)
(***************************************************************************)
\* pos is the position of the next character of the loop.
ScanInit ==
    [values |-> <<>>, buffer |-> <<>>, brace_level |-> 0, in_string |-> FALSE,
     escape_next |-> FALSE, pos |-> 1, splits |-> <<>>]

QuoteOpensString(st) == ~st.in_string /\ st.brace_level = 0

\* One iteration of the loop, on the character at st.pos.
ScanChar(st, char) ==
    IF st.escape_next
    THEN [st EXCEPT !.buffer = Append(@, char), !.escape_next = FALSE,
                    !.pos = @ + 1]
    ELSE IF char = BACKSLASH
    THEN [st EXCEPT !.buffer = Append(@, char), !.escape_next = TRUE,
                    !.pos = @ + 1]
    ELSE IF char = QUOTE /\ QuoteOpensString(st)
    THEN [st EXCEPT !.in_string = TRUE, !.buffer = Append(@, char),
                    !.pos = @ + 1]
    ELSE IF char = QUOTE /\ st.in_string /\ ~st.escape_next
    THEN [st EXCEPT !.in_string = FALSE, !.buffer = Append(@, char),
                    !.pos = @ + 1]
    ELSE IF char = "{" /\ ~st.in_string
    THEN [st EXCEPT !.brace_level = @ + 1, !.buffer = Append(@, char),
                    !.pos = @ + 1]
    ELSE IF char = "}" /\ ~st.in_string
    THEN [st EXCEPT !.brace_level = @ - 1, !.buffer = Append(@, char),
                    !.pos = @ + 1]
    ELSE IF char = "," /\ st.brace_level = 0 /\ ~st.in_string
    THEN [st EXCEPT !.values = Append(@, Strip(st.buffer)), !.buffer = <<>>,
                    !.splits = Append(@, st.pos), !.pos = @ + 1]
    ELSE [st EXCEPT !.buffer = Append(@, char), !.pos = @ + 1]

\* The loop, from the state st to the end of text.
RECURSIVE ScanFrom(_, _)
ScanFrom(st, text) ==
    IF st.pos > Len(text) THEN st
    ELSE ScanFrom(ScanChar(st, text[st.pos]), text)

\* The scan of quest_values_str + ','.
ScanRecord(quest_values_str) ==
    ScanFrom(ScanInit, quest_values_str \o <<",">>)

\* The conversion of one token to a typed value.
ConvertValue(val) ==
    IF val = <<"n", "i", "l">> THEN None
    ELSE IF StartsWith(val, <<QUOTE>>) /\ EndsWith(val, <<QUOTE>>)
    THEN PyStr(Slice(val, 1, Len(val) - 1))
    ELSE IF IsDigit(val) THEN PyInt(IntOfDigits(val))
    ELSE IF StartsWith(val, <<"-">>) /\ IsDigit(Tail(val))
    THEN PyInt(0 - IntOfDigits(Tail(val)))
    ELSE PyStr(val)

ProcessValues(vals) == [i \in 1..Len(vals) |-> ConvertValue(vals[i])]

(***************************************************************************)
(* extract_nested_array: the scan of the content of a brace pair, and the  *)
(* recursive conversion of its parts.                                      *)
(***************************************************************************)
PartsInit ==
    [parts |-> <<>>, buffer |-> <<>>, brace_level |-> 0, in_string |-> FALSE,
     pos |-> 1, splits |-> <<>>]

\* in_string after the character: every double quote toggles it.
ToggleString(in_string, char) ==
    IF char = QUOTE THEN ~in_string ELSE in_string

\* One iteration of the loop, on the character at st.pos.
PartsChar(st, char) ==
    LET ins == ToggleString(st.in_string, char)
        lvl == IF ins THEN st.brace_level
               ELSE IF char = "{" THEN st.brace_level + 1
               ELSE IF char = "}" THEN st.brace_level - 1
               ELSE st.brace_level
    IN  IF ~ins /\ char = "," /\ lvl = 0
        THEN [st EXCEPT !.in_string = ins, !.brace_level = lvl,
                        !.parts = Append(@, Strip(st.buffer)), !.buffer = <<>>,
                        !.splits = Append(@, st.pos), !.pos = @ + 1]
        ELSE [st EXCEPT !.in_string = ins, !.brace_level = lvl,
                        !.buffer = Append(@, char), !.pos = @ + 1]

\* The loop, from the state st to the end of text.
RECURSIVE PartsFrom(_, _)
PartsFrom(st, text) ==
    IF st.pos > Len(text) THEN st
    ELSE PartsFrom(PartsChar(st, text[st.pos]), text)

\* The loop over content, without the flush of the last buffer.
ScanContent(content) == PartsFrom(PartsInit, content)

\* The parts of content: the loop, then the last buffer when it is not empty.
SplitContent(content) ==
    LET st == ScanContent(content)
    IN  IF st.buffer # <<>> THEN Append(st.parts, Strip(st.buffer)) ELSE st.parts

\* The result is the Python list returned, as a sequence of values.
RECURSIVE extract_nested_array(_)
extract_nested_array(array_str) ==
    IF IsNone(array_str) THEN <<>>
    ELSE IF IsList(array_str) THEN array_str.l
    ELSE IF ~IsStr(array_str) THEN <<array_str>>
    ELSE IF StartsWith(array_str.s, <<"{">>) /\ EndsWith(array_str.s, <<"}">>)
    THEN LET content == Strip(Slice(array_str.s, 1, Len(array_str.s) - 1))
             ps == SplitContent(content)
             Convert(part) ==
                 IF part = <<"n", "i", "l">> THEN None
                 ELSE IF StartsWith(part, <<"{">>) /\ EndsWith(part, <<"}">>)
                 THEN PyList(extract_nested_array(PyStr(part)))
                 ELSE IF StartsWith(part, <<QUOTE>>) /\ EndsWith(part, <<QUOTE>>)
                 THEN PyStr(Slice(part, 1, Len(part) - 1))
                 ELSE IF IsDigit(part) THEN PyInt(IntOfDigits(part))
                 ELSE IF StartsWith(part, <<"-">>) /\ IsDigit(Tail(part))
                 THEN PyInt(0 - IntOfDigits(Tail(part)))
                 ELSE PyStr(part)
         IN  IF content = <<>> THEN <<>>
             ELSE [i \in 1..Len(ps) |-> Convert(ps[i])]
    ELSE <<>>

(***************************************************************************)
(* extract_ids_from_nested_string: the ids of one slot of a nested value.  *)
(***************************************************************************)
\* A variant that keeps every element, whatever its type.
IntsOf_NoFilter(items) == items

\* [id for id in items if isinstance(id, int)]
IntsOf(items) == SelectSeq(items, IsInt)

\* find_ints: every int at any depth, left to right.
RECURSIVE find_ints(_)
find_ints(items) ==
    IF items = <<>> THEN <<>>
    ELSE LET item == Head(items)
             first == IF IsInt(item) THEN <<item>>
                      ELSE IF IsList(item) THEN find_ints(item.l)
                      ELSE <<>>
         IN  first \o find_ints(Tail(items))

\* A variant without the special case of the triple nested format.
IdsOfList_NoTriple(l, idx) ==
    IF Len(l) = 1 /\ IsList(l[1])
    THEN IntsOf(l[1].l)
    ELSE IF idx < Len(l) /\ IsList(l[idx + 1])
    THEN IntsOf(l[idx + 1].l)
    ELSE find_ints(l)

\* A variant that tries the slot before the singleton forms.
IdsOfList_SlotFirst(l, idx) ==
    IF idx < Len(l) /\ IsList(l[idx + 1])
    THEN IntsOf(l[idx + 1].l)
    ELSE IF Len(l) = 1 /\ IsList(l[1]) /\ Len(l[1].l) = 1 /\ IsList(l[1].l[1])
    THEN IntsOf(l[1].l[1].l)
    ELSE IF Len(l) = 1 /\ IsList(l[1])
    THEN IntsOf(l[1].l)
    ELSE find_ints(l)

\* The branch taken when nested_str is a list.
IdsOfList(l, idx) ==
    IF Len(l) = 1 /\ IsList(l[1]) /\ Len(l[1].l) = 1 /\ IsList(l[1].l[1])
    THEN IntsOf(l[1].l[1].l)
    ELSE IF Len(l) = 1 /\ IsList(l[1])
    THEN IntsOf(l[1].l)
    ELSE IF idx < Len(l) /\ IsList(l[idx + 1])
    THEN IntsOf(l[idx + 1].l)
    ELSE find_ints(l)

\* The shortcut of the string branch: hit with [int(inner)], or no hit when
\* the branch falls through to the general extractor.
StringShortcut(s) ==
    LET Try(inner) ==
            IF IsDigit(inner)
            THEN [hit |-> TRUE, ids |-> <<PyInt(IntOfDigits(inner))>>]
            ELSE [hit |-> FALSE, ids |-> <<>>]
    IN  IF StartsWith(s, <<"{", "{", "{">>) /\ EndsWith(s, <<"}", "}", "}">>)
        THEN Try(Strip(Slice(s, 3, Len(s) - 3)))
        ELSE IF StartsWith(s, <<"{", "{">>) /\ EndsWith(s, <<"}", "}">>)
        THEN Try(Strip(Slice(s, 2, Len(s) - 2)))
        ELSE [hit |-> FALSE, ids |-> <<>>]

extract_ids_from_nested_string(v, idx) ==
    IF IsNone(v) THEN <<>>
    ELSE IF IsList(v) THEN IdsOfList(v.l, idx)
    ELSE IF ~IsStr(v) THEN <<>>
    ELSE LET short == StringShortcut(v.s)
         IN  IF short.hit THEN short.ids
             ELSE IdsOfList(extract_nested_array(v), idx)

(***************************************************************************)
(* The regular expressions of the loader and of the extractor, on a text   *)
(* whose keywords (QuestieDB.questKeys, QuestieDB.questData, return) and   *)
(* words are single symbols.                                               *)
(***************************************************************************)
At(text, i) == IF i >= 1 /\ i <= Len(text) THEN text[i] ELSE "<end>"

\* \s* from position i: the position of the first character that is no
\* whitespace, Len(text) + 1 when there is none.
SkipSpace(text, i) ==
    LET stops == {j \in i..Len(text) : text[j] \notin Whitespace}
    IN  IF stops = {} THEN Len(text) + 1
        ELSE CHOOSE j \in stops : \A m \in stops : j <= m

\* \d+ from position i: the position after the digits, 0 when there is no digit.
SkipDigits(text, i) ==
    LET stops == {j \in i..Len(text) : text[j] \notin Digits}
        end == IF stops = {} THEN Len(text) + 1
               ELSE CHOOSE j \in stops : \A m \in stops : j <= m
    IN  IF end > i THEN end ELSE 0

\* \s*=\s*{ from position i: the position after the brace, 0 when no match.
SkipAssignBrace(text, i) ==
    LET a == SkipSpace(text, i)
        b == SkipSpace(text, a + 1)
    IN  IF At(text, a) = "=" /\ At(text, b) = "{" THEN b + 1 ELSE 0

Min(S) == CHOOSE j \in S : \A m \in S : j <= m

\* re.search(r"QuestieDB\.questKeys\s*=\s*{(.*?)}", lua_content, re.DOTALL):
\* group 1 of the leftmost match, found FALSE when there is no match.
SearchQuestKeys(text) ==
    LET Close(i) ==
            LET j == SkipAssignBrace(text, i + 1)
            IN  IF At(text, i) = "QuestieDB.questKeys" /\ j > 0
                THEN {e \in j..Len(text) : text[e] = "}"} ELSE {}
        starts == {i \in 1..Len(text) : Close(i) # {}}
    IN  IF starts = {} THEN [found |-> FALSE, group |-> <<>>]
        ELSE LET i == Min(starts)
             IN  [found |-> TRUE,
                  group |-> SubSeq(text, SkipAssignBrace(text, i + 1),
                                   Min(Close(i)) - 1)]

\* One match of r"\['([^']+)'\]\s*=\s*(\d+)" at position i: the end of the
\* match (0 when there is none), the key and the digits.
MatchKeyAt(text, i) ==
    LET quotes == {j \in (i + 2)..Len(text) : text[j] = "'"}
        q == IF quotes = {} THEN 0 ELSE Min(quotes)
        a == SkipSpace(text, q + 2)
        b == SkipSpace(text, a + 1)
        e == SkipDigits(text, b)
    IN  IF /\ At(text, i) = "[" /\ At(text, i + 1) = "'"
           /\ q > i + 2 /\ At(text, q + 1) = "]"
           /\ At(text, a) = "=" /\ e > 0
        THEN [end |-> e, key |-> SubSeq(text, i + 2, q - 1),
              index |-> SubSeq(text, b, e - 1)]
        ELSE [end |-> 0, key |-> <<>>, index |-> <<>>]

\* re.findall of that pattern: the (key, index) pairs, left to right.
RECURSIVE FindKeys(_, _)
FindKeys(text, from) ==
    LET starts == {i \in from..Len(text) : MatchKeyAt(text, i).end > 0}
    IN  IF starts = {} THEN <<>>
        ELSE LET m == MatchKeyAt(text, Min(starts))
             IN  <<[key |-> m.key, index |-> m.index]>> \o FindKeys(text, m.end)

\* re.search(r"QuestieDB\.questData\s*=\s*\[\[return\s*{(.*?)}\]\]", ...).
SearchQuestData(text) ==
    LET Open(i) ==
            LET a == SkipSpace(text, i + 1)
                b == SkipSpace(text, a + 1)
                c == SkipSpace(text, b + 3)
            IN  IF /\ At(text, i) = "QuestieDB.questData" /\ At(text, a) = "="
                   /\ At(text, b) = "[" /\ At(text, b + 1) = "["
                   /\ At(text, b + 2) = "return" /\ At(text, c) = "{"
                THEN c + 1 ELSE 0
        Close(i) ==
            IF Open(i) = 0 THEN {}
            ELSE {e \in Open(i)..Len(text) :
                     /\ text[e] = "}" /\ At(text, e + 1) = "]"
                     /\ At(text, e + 2) = "]"}
        starts == {i \in 1..Len(text) : Close(i) # {}}
    IN  IF starts = {} THEN [found |-> FALSE, group |-> <<>>]
        ELSE LET i == Min(starts)
             IN  [found |-> TRUE,
                  group |-> SubSeq(text, Open(i), Min(Close(i)) - 1)]

\* The lookahead (?=\[\d+\]|\Z) at position i.
FollowsRecord(text, i) ==
    \/ i = Len(text) + 1
    \/ /\ At(text, i) = "["
       /\ SkipDigits(text, i + 1) > 0
       /\ At(text, SkipDigits(text, i + 1)) = "]"

\* The terminator of a record block: "}," then whitespace, then the lookahead.
EndsRecord(text, e) ==
    /\ At(text, e) = "}" /\ At(text, e + 1) = ","
    /\ FollowsRecord(text, SkipSpace(text, e + 2))

\* One match of r"\[(\d+)\]\s*=\s*{(.*?)},\s*(?=\[\d+\]|\Z)" at position i:
\* the end of the match (0 when there is none), the digits and the body.
MatchRecordAt(text, i) ==
    LET d == SkipDigits(text, i + 1)
        j == IF d > 0 /\ At(text, d) = "]" THEN SkipAssignBrace(text, d + 1)
             ELSE 0
        ends == IF At(text, i) = "[" /\ j > 0
                THEN {e \in j..Len(text) : EndsRecord(text, e)} ELSE {}
    IN  IF ends = {} THEN [end |-> 0, id |-> <<>>, body |-> <<>>]
        ELSE [end |-> SkipSpace(text, Min(ends) + 2),
              id |-> SubSeq(text, i + 1, d - 1),
              body |-> SubSeq(text, j, Min(ends) - 1)]

\* re.finditer of that pattern: the matches, left to right.
RECURSIVE FindRecords(_, _)
FindRecords(text, from) ==
    LET starts == {i \in from..Len(text) : MatchRecordAt(text, i).end > 0}
    IN  IF starts = {} THEN <<>>
        ELSE LET m == MatchRecordAt(text, Min(starts))
             IN  <<m>> \o FindRecords(text, m.end)

(***************************************************************************)
(* parse_lua_questKeys. A field name is the sequence of symbols between    *)
(* the quotes, so the name written ['name'] is <<"name">>.                 *)
(***************************************************************************)
FieldNames ==
    << "name", "startedBy", "finishedBy", "requiredLevel", "questLevel",
       "requiredRaces", "requiredClasses", "objectivesText", "triggerEnd",
       "objectives", "sourceItemId", "preQuestGroup", "preQuestSingle",
       "childQuests", "inGroupWith", "exclusiveTo", "zoneOrSort",
       "requiredSkill", "requiredMinRep", "requiredMaxRep",
       "requiredSourceItems", "nextQuestInChain", "questFlags",
       "specialFlags", "parentQuest", "reputationReward" >>

default_keys ==
    [key \in {<<FieldNames[i]>> : i \in 1..Len(FieldNames)} |->
        CHOOSE i \in 1..Len(FieldNames) : FieldNames[i] = key[1]]

MinParsedKeys == 10

\* The dictionary b with the entries of a for the keys b does not have: the
\* entries of b replace those of a.
WithDefaults_Overwrite(a, b) ==
    [key \in DOMAIN a \cup DOMAIN b |-> IF key \in DOMAIN b THEN b[key] ELSE a[key]]

\* The dictionary a with the entries of b for the keys a does not have.
WithDefaults(a, b) ==
    [key \in DOMAIN a \cup DOMAIN b |-> IF key \in DOMAIN a THEN a[key] ELSE b[key]]

\* quest_keys[key] = int(index) for the matches in order: a later pair
\* replaces an earlier one of the same key.
RECURSIVE KeysOfMatches(_)
KeysOfMatches(matches) ==
    IF matches = <<>> THEN <<>>
    ELSE LET last == matches[Len(matches)]
             rest == KeysOfMatches(SubSeq(matches, 1, Len(matches) - 1))
         IN  [key \in DOMAIN rest \cup {last.key} |->
                 IF key = last.key THEN IntOfDigits(last.index) ELSE rest[key]]

parse_lua_questKeys(content) ==
    LET match == SearchQuestKeys(content)
        parsed == KeysOfMatches(FindKeys(match.group, 1))
    IN  IF ~match.found THEN default_keys
        ELSE IF Cardinality(DOMAIN parsed) < MinParsedKeys
        THEN WithDefaults(parsed, default_keys)
        ELSE parsed

(***************************************************************************)
(* extract_quests. The dictionary of records is the sequence of its        *)
(* entries in insertion order; storing under an id already present         *)
(* replaces the values and keeps the place.                                *)
(***************************************************************************)
HasId(dict, id) == \E i \in 1..Len(dict) : dict[i].id = id

\* A dictionary that keeps the values first stored under an id.
Store_KeepFirst(dict, id, vals) ==
    IF HasId(dict, id) THEN dict
    ELSE Append(dict, [id |-> id, values |-> vals])

Store(dict, id, vals) ==
    IF HasId(dict, id)
    THEN [i \in 1..Len(dict) |->
             IF dict[i].id = id THEN [id |-> id, values |-> vals] ELSE dict[i]]
    ELSE Append(dict, [id |-> id, values |-> vals])

RECURSIVE StoreMatches(_, _)
StoreMatches(dict, matches) ==
    IF matches = <<>> THEN dict
    ELSE StoreMatches(
             Store(dict, IntOfDigits(matches[1].id),
                   ProcessValues(ScanRecord(matches[1].body).values)),
             Tail(matches))

\* A missing section read as an empty section, with no ValueError.
extract_quests_Tolerant(content) ==
    LET match == SearchQuestData(content)
    IN  [found |-> TRUE,
         quests |-> StoreMatches(<<>>, FindRecords(match.group, 1))]

\* found is FALSE where the code raises ValueError.
extract_quests(content) ==
    LET match == SearchQuestData(content)
    IN  IF ~match.found THEN [found |-> FALSE, quests |-> <<>>]
        ELSE [found |-> TRUE,
              quests |-> StoreMatches(<<>>, FindRecords(match.group, 1))]

(***************************************************************************)
(* Serialisation of a value in the literal syntax of the document (the     *)
(* inverse of parsing): used to write the inputs of the runs below.        *)
(***************************************************************************)
DigitChar(d) ==
    CASE d = 0 -> "0" [] d = 1 -> "1" [] d = 2 -> "2" [] d = 3 -> "3"
      [] d = 4 -> "4" [] d = 5 -> "5" [] d = 6 -> "6" [] d = 7 -> "7"
      [] d = 8 -> "8" [] d = 9 -> "9"

RECURSIVE NatToChars(_)
NatToChars(n) ==
    IF n < 10 THEN <<DigitChar(n)>>
    ELSE Append(NatToChars(n \div 10), DigitChar(n % 10))

IntToChars(n) == IF n < 0 THEN <<"-">> \o NatToChars(0 - n) ELSE NatToChars(n)

RECURSIVE Ser(_)
RECURSIVE SerItems(_)
Ser(v) ==
    CASE IsNone(v) -> <<"n", "i", "l">>
      [] IsInt(v) -> IntToChars(v.i)
      [] IsStr(v) -> <<QUOTE>> \o v.s \o <<QUOTE>>
      [] IsList(v) -> <<"{">> \o SerItems(v.l) \o <<"}">>
SerItems(l) ==
    IF l = <<>> THEN <<>>
    ELSE IF Len(l) = 1 THEN Ser(l[1])
    ELSE Ser(l[1]) \o <<",">> \o SerItems(Tail(l))

\* The sequences over S of length at most n.
SeqUpTo(S, n) == UNION {[1..m -> S] : m \in 0..n}

(***************************************************************************)
(* The outcome of an expression that can raise: error is "none" and v the  *)
(* value, or error names the exception and key the field being read.       *)
(***************************************************************************)
Returned(v) == [error |-> "none", key |-> "", v |-> v]
Raised(e, key) == [error |-> e, key |-> key, v |-> None]

\* vals[idx] of Python for idx < len(vals): a negative idx counts from the
\* end of the list, and raises IndexError when it falls before the start.
Subscript(vals, idx, key) ==
    IF idx >= 0 THEN Returned(vals[idx + 1])
    ELSE IF Len(vals) + idx >= 0 THEN Returned(vals[Len(vals) + idx + 1])
    ELSE Raised("IndexError", key)

\* values[quest_keys[key] - 1] with no test of the length: Python raises
\* IndexError when the index is not below len(values).
FieldOf_Unguarded(vals, keys, key) ==
    IF <<key>> \notin DOMAIN keys THEN Raised("KeyError", key)
    ELSE IF keys[<<key>>] - 1 < Len(vals)
    THEN Subscript(vals, keys[<<key>>] - 1, key)
    ELSE Raised("IndexError", key)

\* values[quest_keys[key] - 1] if quest_keys[key] - 1 < len(values) else None,
\* and the guarded read "idx < len(values) and values[idx]" of the relation
\* fields, whose value is used only when it is truthy.
FieldOf(vals, keys, key) ==
    IF <<key>> \notin DOMAIN keys THEN Raised("KeyError", key)
    ELSE IF keys[<<key>>] - 1 < Len(vals)
    THEN Subscript(vals, keys[<<key>>] - 1, key)
    ELSE Returned(None)

\* l[i] if len(l) > i else None, for a 0-based i.
ElementOrNone(l, i) == IF Len(l) > i THEN l[i + 1] ELSE None

\* s.replace("'", "''")
RECURSIVE EscapeQuotes(_)
EscapeQuotes(s) ==
    IF s = <<>> THEN <<>>
    ELSE (IF s[1] = "'" THEN <<"'", "'">> ELSE <<s[1]>>) \o EscapeQuotes(Tail(s))

\* repr(s) of a str over printable characters, newline and tab.
ReprStr(s) ==
    LET q == IF (\E i \in 1..Len(s) : s[i] = "'") /\ ~(\E i \in 1..Len(s) : s[i] = QUOTE)
             THEN QUOTE ELSE "'"
        Esc(c) == IF c = BACKSLASH THEN <<BACKSLASH, BACKSLASH>>
                  ELSE IF c = "\n" THEN <<BACKSLASH, "n">>
                  ELSE IF c = "\t" THEN <<BACKSLASH, "t">>
                  ELSE IF c = q THEN <<BACKSLASH, c>>
                  ELSE <<c>>
        RECURSIVE Body(_)
        Body(t) == IF t = <<>> THEN <<>> ELSE Esc(t[1]) \o Body(Tail(t))
    IN  <<q>> \o Body(s) \o <<q>>

\* str(v) and repr(v): they differ on a str only.
RECURSIVE PyRepr(_)
RECURSIVE ReprItems(_)
PyRepr(v) ==
    CASE IsNone(v) -> <<"N", "o", "n", "e">>
      [] IsInt(v) -> IntToChars(v.i)
      [] IsStr(v) -> ReprStr(v.s)
      [] IsList(v) -> <<"[">> \o ReprItems(v.l) \o <<"]">>
ReprItems(l) ==
    IF l = <<>> THEN <<>>
    ELSE IF Len(l) = 1 THEN PyRepr(l[1])
    ELSE PyRepr(l[1]) \o <<",", " ">> \o ReprItems(Tail(l))

PyStrOf(v) == IF IsStr(v) THEN v.s ELSE PyRepr(v)

\* re.findall(r'"([^"]*)"', s): the texts between successive pairs of quotes.
RECURSIVE FindQuoted(_, _)
FindQuoted(s, from) ==
    LET quotes == {i \in from..Len(s) : s[i] = QUOTE}
        open == Min(quotes)
        closes == {i \in quotes : i > open}
    IN  IF quotes = {} \/ closes = {} THEN <<>>
        ELSE <<SubSeq(s, open + 1, Min(closes) - 1)>> \o FindQuoted(s, Min(closes) + 1)

\* The list of str returned; each element is the text itself.
extract_objective_texts(obj_texts_str) ==
    IF IsNone(obj_texts_str) THEN <<>>
    ELSE IF IsList(obj_texts_str)
    THEN [i \in 1..Len(obj_texts_str.l) |->
             IF IsNone(obj_texts_str.l[i]) THEN <<>> ELSE PyStrOf(obj_texts_str.l[i])]
    ELSE IF ~IsStr(obj_texts_str) THEN <<>>
    ELSE IF obj_texts_str.s = <<"n", "i", "l">> THEN <<>>
    ELSE FindQuoted(obj_texts_str.s, 1)

(***************************************************************************)
(* generate_insert_sql: the statements of one record. A statement is the   *)
(* record of its table and its column values; quest_id and the id columns  *)
(* of the relation tables are written from an int and are that int; every  *)
(* other column is the SQL text the f-string writes: NULL, the str() of a  *)
(* value written bare, or a text between single quotes.                    *)
(***************************************************************************)
SqlNULL == [sql |-> "NULL"]
SqlBare(v) == [sql |-> "bare", v |-> v]
SqlQuoted(s) == [sql |-> "quoted", s |-> s]

\* {x if x is not None else 'NULL'}
SqlOf(v) == IF IsNone(v) THEN SqlNULL ELSE SqlBare(v)

\* The outcome of one part of the loop body: the statements it appends,
\* and the exception that ends it, if any.
Appended(rows) == [error |-> "none", key |-> "", rows |-> rows]
Failed(r) == [error |-> r.error, key |-> r.key, rows |-> <<>>]

\* The fields read at lines 308-337, in the order they are read.
ScalarFields ==
    << "name", "requiredLevel", "questLevel", "requiredRaces",
       "requiredClasses", "zoneOrSort", "requiredSkill", "requiredMinRep",
       "requiredMaxRep", "sourceItemId", "nextQuestInChain", "questFlags",
       "specialFlags", "parentQuest" >>

\* {f"'{name}'" if name is not None else 'NULL'}, after the escape of line 341.
SqlName(name) ==
    IF IsNone(name) THEN SqlNULL
    ELSE IF IsStr(name) /\ Truthy(name) THEN SqlQuoted(EscapeQuotes(name.s))
    ELSE SqlQuoted(PyStrOf(name))

\* Lines 308-371: the quests row.
GenQuestRow(quest_id, vals, keys) ==
    LET F(key) == FieldOf(vals, keys, key)
        failing == {i \in 1..Len(ScalarFields) : F(ScalarFields[i]).error # "none"}
        name == F("name").v
        required_skill == extract_nested_array(F("requiredSkill").v)
        required_min_rep == extract_nested_array(F("requiredMinRep").v)
        required_max_rep == extract_nested_array(F("requiredMaxRep").v)
    IN  IF failing # {} THEN Failed(F(ScalarFields[Min(failing)]))
        ELSE IF Truthy(name) /\ ~IsStr(name)
        THEN Failed(Raised("AttributeError", "name"))
        ELSE Appended(<<
            [table |-> "quests", id |-> quest_id,
             name |-> SqlName(name),
             required_level |-> SqlOf(F("requiredLevel").v),
             quest_level |-> SqlOf(F("questLevel").v),
             required_races |-> SqlOf(F("requiredRaces").v),
             required_classes |-> SqlOf(F("requiredClasses").v),
             zone_or_sort |-> SqlOf(F("zoneOrSort").v),
             required_skill_id |-> SqlOf(ElementOrNone(required_skill, 0)),
             required_skill_value |-> SqlOf(ElementOrNone(required_skill, 1)),
             required_min_rep_faction |-> SqlOf(ElementOrNone(required_min_rep, 0)),
             required_min_rep_value |-> SqlOf(ElementOrNone(required_min_rep, 1)),
             required_max_rep_faction |-> SqlOf(ElementOrNone(required_max_rep, 0)),
             required_max_rep_value |-> SqlOf(ElementOrNone(required_max_rep, 1)),
             source_item_id |-> SqlOf(F("sourceItemId").v),
             next_quest_in_chain |-> SqlOf(F("nextQuestInChain").v),
             quest_flags |-> SqlOf(F("questFlags").v),
             special_flags |-> SqlOf(F("specialFlags").v),
             parent_quest |-> SqlOf(F("parentQuest").v)] >>)

\* Lines 374-383: one statement per non-empty objective text, idx 0-based.
GenObjectiveTexts(quest_id, vals, keys) ==
    LET f == FieldOf(vals, keys, "objectivesText")
        texts == extract_objective_texts(f.v)
        kept == SelectSeq([i \in 1..Len(texts) |-> i], LAMBDA i : texts[i] # <<>>)
    IN  IF f.error # "none" THEN Failed(f)
        ELSE IF ~Truthy(f.v) THEN Appended(<<>>)
        ELSE Appended([n \in 1..Len(kept) |->
                 [table |-> "quest_objective_texts", quest_id |-> quest_id,
                  idx |-> kept[n] - 1,
                  objective_text |-> SqlQuoted(EscapeQuotes(texts[kept[n]]))]])

StarterRows(quest_id, kind, id_list) ==
    [n \in 1..Len(id_list) |->
        [table |-> "quest_starters", quest_id |-> quest_id,
         starter_type |-> kind, starter_id |-> id_list[n].i]]

\* Lines 386-412: creature, object and item starters, slots 0, 1 and 2.
GenStarters(quest_id, vals, keys) ==
    LET f == FieldOf(vals, keys, "startedBy")
    IN  IF f.error # "none" THEN Failed(f)
        ELSE IF ~Truthy(f.v) THEN Appended(<<>>)
        ELSE Appended(
            StarterRows(quest_id, "creature", extract_ids_from_nested_string(f.v, 0))
            \o StarterRows(quest_id, "object", extract_ids_from_nested_string(f.v, 1))
            \o StarterRows(quest_id, "item", extract_ids_from_nested_string(f.v, 2)))

FinisherRows(quest_id, kind, id_list) ==
    [n \in 1..Len(id_list) |->
        [table |-> "quest_finishers", quest_id |-> quest_id,
         finisher_type |-> kind, finisher_id |-> id_list[n].i]]

\* Lines 415-433: creature and object finishers, slots 0 and 1.
GenFinishers(quest_id, vals, keys) ==
    LET f == FieldOf(vals, keys, "finishedBy")
    IN  IF f.error # "none" THEN Failed(f)
        ELSE IF ~Truthy(f.v) THEN Appended(<<>>)
        ELSE Appended(
            FinisherRows(quest_id, "creature", extract_ids_from_nested_string(f.v, 0))
            \o FinisherRows(quest_id, "object", extract_ids_from_nested_string(f.v, 1)))

\* Lines 437-494: the five relationship fields share one shape; key is the
\* field and kind the relationship_type written.
GenRelationship(quest_id, vals, keys, key, kind) ==
    LET f == FieldOf(vals, keys, key)
        related == SelectSeq(extract_nested_array(f.v), IsInt)
    IN  IF f.error # "none" THEN Failed(f)
        ELSE IF ~Truthy(f.v) THEN Appended(<<>>)
        ELSE Appended([n \in 1..Len(related) |->
                 [table |-> "quest_relationships", quest_id |-> quest_id,
                  relationship_type |-> kind,
                  related_quest_id |-> related[n].i]])

\* Lines 497-506.
GenRequiredItems(quest_id, vals, keys) ==
    LET f == FieldOf(vals, keys, "requiredSourceItems")
        items == SelectSeq(extract_nested_array(f.v), IsInt)
    IN  IF f.error # "none" THEN Failed(f)
        ELSE IF ~Truthy(f.v) THEN Appended(<<>>)
        ELSE Appended([n \in 1..Len(items) |->
                 [table |-> "quest_required_items", quest_id |-> quest_id,
                  item_id |-> items[n].i]])

\* range(0, n, step) of Python, for step > 0.
RangeBy(n, step) == [j \in 1..((n + step - 1) \div step) |-> (j - 1) * step]

\* A reading of the array as overlapping pairs (0,1), (1,2), ...
RewardPairs_Sliding(rep_rewards) ==
    LET starts == SelectSeq(RangeBy(Len(rep_rewards), 1),
                            LAMBDA i : i + 1 < Len(rep_rewards))
    IN  [n \in 1..Len(starts) |->
            <<rep_rewards[starts[n] + 1], rep_rewards[starts[n] + 2]>>]

\* Lines 515-518: the pairs (rep_rewards[i], rep_rewards[i+1]) for
\* i in range(0, len(rep_rewards), 2) with i + 1 < len(rep_rewards).
RewardPairs(rep_rewards) ==
    LET starts == SelectSeq(RangeBy(Len(rep_rewards), 2),
                            LAMBDA i : i + 1 < Len(rep_rewards))
    IN  [n \in 1..Len(starts) |->
            <<rep_rewards[starts[n] + 1], rep_rewards[starts[n] + 2]>>]

\* Lines 509-524.
GenReputationRewards(quest_id, vals, keys) ==
    LET f == FieldOf(vals, keys, "reputationReward")
        pairs == SelectSeq(RewardPairs(extract_nested_array(f.v)),
                           LAMBDA p : IsInt(p[1]) /\ IsInt(p[2]))
    IN  IF f.error # "none" THEN Failed(f)
        ELSE IF ~Truthy(f.v) THEN Appended(<<>>)
        ELSE Appended([n \in 1..Len(pairs) |->
                 [table |-> "quest_reputation_rewards", quest_id |-> quest_id,
                  faction_id |-> pairs[n][1].i, value |-> pairs[n][2].i]])

\* The entries of one slot of the objectives array that yield a statement:
\* lists of at least min_len elements whose element id_at is a non-zero int;
\* the text is element id_at + 1 when it is a str.
ObjectiveEntries(slot_value, min_len, id_at) ==
    SelectSeq(extract_nested_array(slot_value),
              LAMBDA obj : /\ IsList(obj) /\ Len(obj.l) >= min_len
                           /\ IsInt(obj.l[id_at + 1]) /\ obj.l[id_at + 1].i # 0)

ObjectiveTextOf(obj, id_at) ==
    IF Len(obj.l) > id_at + 1 /\ IsStr(obj.l[id_at + 2]) THEN obj.l[id_at + 2]
    ELSE None

\* '{objective_text}' after the escape when the text is non-empty, else NULL.
SqlObjectiveText(objective_text) ==
    IF Truthy(objective_text) THEN SqlQuoted(EscapeQuotes(objective_text.s))
    ELSE SqlNULL

\* Lines 533-551, 554-572, 575-593 and 609-627: the statements of one slot.
GenObjectiveSlot(quest_id, objectives, slot, kind, min_len, id_at) ==
    IF Len(objectives) > slot /\ Truthy(objectives[slot + 1])
    THEN LET entries == ObjectiveEntries(objectives[slot + 1], min_len, id_at)
         IN  [n \in 1..Len(entries) |->
                 [table |-> "quest_objectives", quest_id |-> quest_id,
                  objective_type |-> kind,
                  objective_id |-> entries[n].l[id_at + 1].i,
                  objective_text |->
                      SqlObjectiveText(ObjectiveTextOf(entries[n], id_at))]]
    ELSE <<>>

\* Lines 596-606: the reputation objective, a (faction_id, value) pair.
GenReputationObjective(quest_id, objectives) ==
    IF Len(objectives) > 3 /\ Truthy(objectives[4])
    THEN LET rep_objective == extract_nested_array(objectives[4])
             value == IF IsInt(rep_objective[2]) THEN rep_objective[2] ELSE None
         IN  IF /\ Len(rep_objective) >= 2 /\ IsInt(rep_objective[1])
                /\ rep_objective[1].i # 0
             THEN << [table |-> "quest_objectives", quest_id |-> quest_id,
                      objective_type |-> "reputation",
                      objective_id |-> rep_objective[1].i,
                      objective_text |-> SqlQuoted(PyStrOf(value))] >>
             ELSE <<>>
    ELSE <<>>

\* Lines 527-627.
GenObjectives(quest_id, vals, keys) ==
    LET f == FieldOf(vals, keys, "objectives")
        objectives == extract_nested_array(f.v)
    IN  IF f.error # "none" THEN Failed(f)
        ELSE IF ~Truthy(f.v) THEN Appended(<<>>)
        ELSE Appended(
            GenObjectiveSlot(quest_id, objectives, 0, "creature", 1, 0)
            \o GenObjectiveSlot(quest_id, objectives, 1, "object", 1, 0)
            \o GenObjectiveSlot(quest_id, objectives, 2, "item", 1, 0)
            \o GenReputationObjective(quest_id, objectives)
            \o GenObjectiveSlot(quest_id, objectives, 4, "killcredit", 2, 1))

\* A loop body that writes the quests row after the relation tuples.
GenParts_QuestRowLast(quest_id, vals, keys) ==
    << GenObjectiveTexts(quest_id, vals, keys),
       GenStarters(quest_id, vals, keys),
       GenFinishers(quest_id, vals, keys),
       GenQuestRow(quest_id, vals, keys) >>

\* The parts of the loop body in the order the code runs them.
GenParts(quest_id, vals, keys) ==
    << GenQuestRow(quest_id, vals, keys),
       GenObjectiveTexts(quest_id, vals, keys),
       GenStarters(quest_id, vals, keys),
       GenFinishers(quest_id, vals, keys),
       GenRelationship(quest_id, vals, keys, "preQuestGroup", "prereq_group"),
       GenRelationship(quest_id, vals, keys, "preQuestSingle", "prereq_single"),
       GenRelationship(quest_id, vals, keys, "childQuests", "child"),
       GenRelationship(quest_id, vals, keys, "inGroupWith", "in_group"),
       GenRelationship(quest_id, vals, keys, "exclusiveTo", "exclusive"),
       GenRequiredItems(quest_id, vals, keys),
       GenReputationRewards(quest_id, vals, keys),
       GenObjectives(quest_id, vals, keys) >>

\* The statements of the parts 1..n, in order.
RECURSIVE RowsOfParts(_, _)
RowsOfParts(all, n) ==
    IF n = 0 THEN <<>> ELSE RowsOfParts(all, n - 1) \o all[n].rows

\* The parts run until the first that raises: the statements appended
\* before it stay in the list, and the exception is the outcome.
RunParts(all) ==
    LET failing == {i \in 1..Len(all) : all[i].error # "none"}
    IN  IF failing = {}
        THEN [error |-> "none", key |-> "", rows |-> RowsOfParts(all, Len(all))]
        ELSE [error |-> all[Min(failing)].error, key |-> all[Min(failing)].key,
              rows |-> RowsOfParts(all, Min(failing) - 1)]

\* Lines 305-630: one iteration of the loop of generate_insert_sql.
GenRecord(quest_id, vals, keys) == RunParts(GenParts(quest_id, vals, keys))

(***************************************************************************)
(* insert_quest_data: the statements of one record. A statement is the     *)
(* record of its table and the parameters handed to cursor.execute, which  *)
(* are Python values (None for NULL); quest_id and the id columns of the   *)
(* relation tables are ints and are written as that int.                   *)
(***************************************************************************)
\* Lines 781-827: the quests row.
InsQuestRow(quest_id, vals, keys) ==
    LET F(key) == FieldOf(vals, keys, key)
        failing == {i \in 1..Len(ScalarFields) : F(ScalarFields[i]).error # "none"}
        required_skill == extract_nested_array(F("requiredSkill").v)
        required_min_rep == extract_nested_array(F("requiredMinRep").v)
        required_max_rep == extract_nested_array(F("requiredMaxRep").v)
    IN  IF failing # {} THEN Failed(F(ScalarFields[Min(failing)]))
        ELSE Appended(<<
            [table |-> "quests", id |-> quest_id,
             name |-> F("name").v,
             required_level |-> F("requiredLevel").v,
             quest_level |-> F("questLevel").v,
             required_races |-> F("requiredRaces").v,
             required_classes |-> F("requiredClasses").v,
             zone_or_sort |-> F("zoneOrSort").v,
             required_skill_id |-> ElementOrNone(required_skill, 0),
             required_skill_value |-> ElementOrNone(required_skill, 1),
             required_min_rep_faction |-> ElementOrNone(required_min_rep, 0),
             required_min_rep_value |-> ElementOrNone(required_min_rep, 1),
             required_max_rep_faction |-> ElementOrNone(required_max_rep, 0),
             required_max_rep_value |-> ElementOrNone(required_max_rep, 1),
             source_item_id |-> F("sourceItemId").v,
             next_quest_in_chain |-> F("nextQuestInChain").v,
             quest_flags |-> F("questFlags").v,
             special_flags |-> F("specialFlags").v,
             parent_quest |-> F("parentQuest").v] >>)

\* Lines 830-838.
InsObjectiveTexts(quest_id, vals, keys) ==
    LET f == FieldOf(vals, keys, "objectivesText")
        texts == extract_objective_texts(f.v)
        kept == SelectSeq([i \in 1..Len(texts) |-> i], LAMBDA i : texts[i] # <<>>)
    IN  IF f.error # "none" THEN Failed(f)
        ELSE IF ~Truthy(f.v) THEN Appended(<<>>)
        ELSE Appended([n \in 1..Len(kept) |->
                 [table |-> "quest_objective_texts", quest_id |-> quest_id,
                  idx |-> kept[n] - 1,
                  objective_text |-> PyStr(texts[kept[n]])]])

\* Lines 841-867.
InsStarters(quest_id, vals, keys) ==
    LET f == FieldOf(vals, keys, "startedBy")
        Rows(kind, id_list) ==
            [n \in 1..Len(id_list) |->
                [table |-> "quest_starters", quest_id |-> quest_id,
                 starter_type |-> kind, starter_id |-> id_list[n].i]]
    IN  IF f.error # "none" THEN Failed(f)
        ELSE IF ~Truthy(f.v) THEN Appended(<<>>)
        ELSE Appended(
            Rows("creature", extract_ids_from_nested_string(f.v, 0))
            \o Rows("object", extract_ids_from_nested_string(f.v, 1))
            \o Rows("item", extract_ids_from_nested_string(f.v, 2)))

\* Lines 870-888.
InsFinishers(quest_id, vals, keys) ==
    LET f == FieldOf(vals, keys, "finishedBy")
        Rows(kind, id_list) ==
            [n \in 1..Len(id_list) |->
                [table |-> "quest_finishers", quest_id |-> quest_id,
                 finisher_type |-> kind, finisher_id |-> id_list[n].i]]
    IN  IF f.error # "none" THEN Failed(f)
        ELSE IF ~Truthy(f.v) THEN Appended(<<>>)
        ELSE Appended(
            Rows("creature", extract_ids_from_nested_string(f.v, 0))
            \o Rows("object", extract_ids_from_nested_string(f.v, 1)))

\* Lines 892-949: the five relationship fields.
InsRelationship(quest_id, vals, keys, key, kind) ==
    LET f == FieldOf(vals, keys, key)
        related == SelectSeq(extract_nested_array(f.v), IsInt)
    IN  IF f.error # "none" THEN Failed(f)
        ELSE IF ~Truthy(f.v) THEN Appended(<<>>)
        ELSE Appended([n \in 1..Len(related) |->
                 [table |-> "quest_relationships", quest_id |-> quest_id,
                  relationship_type |-> kind,
                  related_quest_id |-> related[n].i]])

\* Lines 952-961.
InsRequiredItems(quest_id, vals, keys) ==
    LET f == FieldOf(vals, keys, "requiredSourceItems")
        items == SelectSeq(extract_nested_array(f.v), IsInt)
    IN  IF f.error # "none" THEN Failed(f)
        ELSE IF ~Truthy(f.v) THEN Appended(<<>>)
        ELSE Appended([n \in 1..Len(items) |->
                 [table |-> "quest_required_items", quest_id |-> quest_id,
                  item_id |-> items[n].i]])

\* Lines 970-973: the pairs, as in lines 515-518.
InsRewardPairs(rep_rewards) ==
    LET starts == SelectSeq(RangeBy(Len(rep_rewards), 2),
                            LAMBDA i : i + 1 < Len(rep_rewards))
    IN  [n \in 1..Len(starts) |->
            <<rep_rewards[starts[n] + 1], rep_rewards[starts[n] + 2]>>]

\* Lines 964-979.
InsReputationRewards(quest_id, vals, keys) ==
    LET f == FieldOf(vals, keys, "reputationReward")
        pairs == SelectSeq(InsRewardPairs(extract_nested_array(f.v)),
                           LAMBDA p : IsInt(p[1]) /\ IsInt(p[2]))
    IN  IF f.error # "none" THEN Failed(f)
        ELSE IF ~Truthy(f.v) THEN Appended(<<>>)
        ELSE Appended([n \in 1..Len(pairs) |->
                 [table |-> "quest_reputation_rewards", quest_id |-> quest_id,
                  faction_id |-> pairs[n][1].i, value |-> pairs[n][2].i]])

\* Lines 988-999, 1002-1013, 1016-1027 and 1043-1054: the statements of one
\* slot; the text parameter is the str element, or None.
InsObjectiveSlot(quest_id, objectives, slot, kind, min_len, id_at) ==
    IF Len(objectives) > slot /\ Truthy(objectives[slot + 1])
    THEN LET entries ==
                 SelectSeq(extract_nested_array(objectives[slot + 1]),
                     LAMBDA obj : /\ IsList(obj) /\ Len(obj.l) >= min_len
                                  /\ IsInt(obj.l[id_at + 1])
                                  /\ obj.l[id_at + 1].i # 0)
             TextOf(obj) ==
                 IF Len(obj.l) > id_at + 1 /\ IsStr(obj.l[id_at + 2])
                 THEN obj.l[id_at + 2] ELSE None
         IN  [n \in 1..Len(entries) |->
                 [table |-> "quest_objectives", quest_id |-> quest_id,
                  objective_type |-> kind,
                  objective_id |-> entries[n].l[id_at + 1].i,
                  objective_text |-> TextOf(entries[n])]]
    ELSE <<>>

\* Lines 1030-1040.
InsReputationObjective(quest_id, objectives) ==
    IF Len(objectives) > 3 /\ Truthy(objectives[4])
    THEN LET rep_objective == extract_nested_array(objectives[4])
             value == IF IsInt(rep_objective[2]) THEN rep_objective[2] ELSE None
         IN  IF /\ Len(rep_objective) >= 2 /\ IsInt(rep_objective[1])
                /\ rep_objective[1].i # 0
             THEN << [table |-> "quest_objectives", quest_id |-> quest_id,
                      objective_type |-> "reputation",
                      objective_id |-> rep_objective[1].i,
                      objective_text |-> PyStr(PyStrOf(value))] >>
             ELSE <<>>
    ELSE <<>>

\* Lines 982-1054.
InsObjectives(quest_id, vals, keys) ==
    LET f == FieldOf(vals, keys, "objectives")
        objectives == extract_nested_array(f.v)
    IN  IF f.error # "none" THEN Failed(f)
        ELSE IF ~Truthy(f.v) THEN Appended(<<>>)
        ELSE Appended(
            InsObjectiveSlot(quest_id, objectives, 0, "creature", 1, 0)
            \o InsObjectiveSlot(quest_id, objectives, 1, "object", 1, 0)
            \o InsObjectiveSlot(quest_id, objectives, 2, "item", 1, 0)
            \o InsReputationObjective(quest_id, objectives)
            \o InsObjectiveSlot(quest_id, objectives, 4, "killcredit", 2, 1))

InsParts(quest_id, vals, keys) ==
    << InsQuestRow(quest_id, vals, keys),
       InsObjectiveTexts(quest_id, vals, keys),
       InsStarters(quest_id, vals, keys),
       InsFinishers(quest_id, vals, keys),
       InsRelationship(quest_id, vals, keys, "preQuestGroup", "prereq_group"),
       InsRelationship(quest_id, vals, keys, "preQuestSingle", "prereq_single"),
       InsRelationship(quest_id, vals, keys, "childQuests", "child"),
       InsRelationship(quest_id, vals, keys, "inGroupWith", "in_group"),
       InsRelationship(quest_id, vals, keys, "exclusiveTo", "exclusive"),
       InsRequiredItems(quest_id, vals, keys),
       InsReputationRewards(quest_id, vals, keys),
       InsObjectives(quest_id, vals, keys) >>

\* Lines 779-1054: one iteration of the loop of insert_quest_data; the
\* statements executed, and the exception that leaves the function, if any.
InsRecord(quest_id, vals, keys) == RunParts(InsParts(quest_id, vals, keys))

(***************************************************************************)
(* Tokenizer runs: a brace body is drawn, and either scan is applied.      *)
(***************************************************************************)
MaxBody == 5
TokAlphabet == {"{", "}", QUOTE, ",", BACKSLASH, "a"}

\* "a,b",{1,2,3},nil
ExampleBody ==
    <<QUOTE, "a", ",", "b", QUOTE, ",", "{", "1", ",", "2", ",", "3", "}", ",",
      "n", "i", "l">>

ExampleBodies ==
    { ExampleBody,
      <<"{", QUOTE, "}", ",", QUOTE, "}">>,
      <<"{", QUOTE, "a", ",", QUOTE, "}", ",", "a">>,
      <<QUOTE, "a", BACKSLASH, QUOTE, ",", "a", QUOTE, ",", "a">> }

\* Bodies of whitespace only.
BlankBodies == {<<" ">>, <<" ", "\n", "\t">>}

\* Bodies of one scalar token, with the value the token denotes: an integer
\* in decimal, a double-quoted string, nil.
IntToken(n) == [body |-> IntToChars(n), value |-> PyInt(n)]
StrToken(s) == [body |-> <<QUOTE>> \o s \o <<QUOTE>>, value |-> PyStr(s)]

TokenInts == {0, 7, 42, 100, 0 - 3, 0 - 42}
TokenTexts ==
    SeqUpTo({"a", ",", " "}, 2)
    \cup { <<"T", "e", "s", "t", " ", "Q", "u", "e", "s", "t">>,
           <<"n", "i", "l">>, <<"5">>, <<"-", "5">>, <<"{">>, <<"}">>,
           <<"{", "a", "}">>, <<BACKSLASH, QUOTE>>, <<"a", BACKSLASH, QUOTE, "b">>,
           <<BACKSLASH, QUOTE, ",">>, <<BACKSLASH, BACKSLASH>> }

ScalarCases ==
    {IntToken(n) : n \in TokenInts}
    \cup {[body |-> <<"0", "0", "7">>, value |-> PyInt(7)],
          [body |-> <<"-", "0">>, value |-> PyInt(0)]}
    \cup {StrToken(s) : s \in TokenTexts}
    \cup {[body |-> <<"n", "i", "l">>, value |-> None]}

\* "\"", 5   and   {"a", nil, {-3}}, {}
TreeBodies ==
    { <<QUOTE, BACKSLASH, QUOTE, QUOTE, ",", " ", "5">>,
      <<"{", QUOTE, "a", QUOTE, ",", " ", "n", "i", "l", ",", " ", "{", "-",
        "3", "}", "}", ",", " ", "{", "}">> }

Bodies ==
    SeqUpTo(TokAlphabet, MaxBody) \cup ExampleBodies \cup BlankBodies
    \cup {c.body : c \in ScalarCases} \cup TreeBodies

NoMain ==
    /\ lua_content = <<>> /\ quest_keys = <<>> /\ quests = <<>> /\ sql = <<>>
    /\ cursor = <<>> /\ position = 0 /\ errors = <<>> /\ raised = "none"
    /\ output = <<>> /\ conn = "none"
NoTok ==
    /\ body = <<>> /\ values = <<>> /\ parts = <<>> /\ splits = <<>>
    /\ processed_values = <<>> /\ result = <<>>
NoIds == nested_str = None /\ index = 0 /\ ids = <<>>

mainVars == <<lua_content, quest_keys, quests, sql, cursor, position, errors,
              raised, output, conn>>
tokVars == <<body, values, parts, splits, processed_values, result>>
idsVars == <<nested_str, index, ids>>

InitTok ==
    /\ pc = "body"
    /\ body \in Bodies
    /\ values = <<>> /\ parts = <<>> /\ splits = <<>>
    /\ processed_values = <<>> /\ result = <<>>
    /\ NoMain /\ NoIds

\* extract_quests, lines 93-140, on the body of one record: the scan, then
\* the conversion of the tokens.
TokenizeRecord ==
    /\ pc = "body"
    /\ LET st == ScanRecord(body)
       IN  /\ values' = st.values
           /\ splits' = SelectSeq(st.splits, LAMBDA p : p <= Len(body))
    /\ processed_values' = ProcessValues(ScanRecord(body).values)
    /\ pc' = "record"
    /\ UNCHANGED <<body, parts, result, mainVars, idsVars>>

\* extract_nested_array, lines 666-714, on the content of one brace pair:
\* the parts of the content, and the list returned for '{' + body + '}'.
TokenizeNested ==
    /\ pc = "body"
    /\ parts' = (IF Strip(body) = <<>> THEN <<>> ELSE SplitContent(Strip(body)))
    /\ splits' = ScanContent(Strip(body)).splits
    /\ result' = extract_nested_array(PyStr(<<"{">> \o body \o <<"}">>))
    /\ pc' = "nested"
    /\ UNCHANGED <<body, values, processed_values, mainVars, idsVars>>

\* The returned list is written back in the literal syntax and
\* extract_nested_array is applied to the text.
ParseSerialized ==
    /\ pc = "nested"
    /\ result' = extract_nested_array(PyStr(Ser(PyList(result))))
    /\ pc' = "reparsed"
    /\ UNCHANGED <<body, values, parts, splits, processed_values, mainVars, idsVars>>

\* extract_nested_array, lines 659-661, applied to the list it returned.
ParseResult ==
    /\ pc = "nested"
    /\ result' = extract_nested_array(PyList(result))
    /\ pc' = "parsed"
    /\ UNCHANGED <<body, values, parts, splits, processed_values, mainVars, idsVars>>

NextTok == TokenizeRecord \/ TokenizeNested \/ ParseSerialized \/ ParseResult

SpecTok == InitTok /\ [][NextTok]_vars

(***************************************************************************)
(* The split points of a brace body as the specification states them:      *)
(* a backslash escapes the next character, an unescaped double quote opens *)
(* or closes a string, braces outside strings change the depth, and a      *)
(* comma splits when the depth is 0 outside a string.                      *)
(***************************************************************************)
RefInit ==
    [depth |-> 0, in_string |-> FALSE, escape |-> FALSE, pos |-> 1,
     splits |-> <<>>]

RefChar(st, char) ==
    IF st.escape THEN [st EXCEPT !.escape = FALSE, !.pos = @ + 1]
    ELSE IF char = BACKSLASH THEN [st EXCEPT !.escape = TRUE, !.pos = @ + 1]
    ELSE IF char = QUOTE THEN [st EXCEPT !.in_string = ~@, !.pos = @ + 1]
    ELSE IF char = "{" /\ ~st.in_string
    THEN [st EXCEPT !.depth = @ + 1, !.pos = @ + 1]
    ELSE IF char = "}" /\ ~st.in_string
    THEN [st EXCEPT !.depth = @ - 1, !.pos = @ + 1]
    ELSE IF char = "," /\ st.depth = 0 /\ ~st.in_string
    THEN [st EXCEPT !.splits = Append(@, st.pos), !.pos = @ + 1]
    ELSE [st EXCEPT !.pos = @ + 1]

RECURSIVE RefFrom(_, _)
RefFrom(st, text) ==
    IF st.pos > Len(text) THEN st ELSE RefFrom(RefChar(st, text[st.pos]), text)

RefSplits(text) == RefFrom(RefInit, text).splits

\* The body closes every string and every brace it opens.
RefBalanced(text) ==
    LET st == RefFrom(RefInit, text)
    IN  st.depth = 0 /\ ~st.in_string /\ ~st.escape

\* C1: tokenizing a brace body, by the scan of extract_quests and by the scan
\* of extract_nested_array, splits it exactly at the commas that are at brace
\* depth 0 outside a quoted string (strings delimited by unescaped double
\* quotes, depth changed by braces outside strings); the body
\* "a,b",{1,2,3},nil gives exactly 3 tokens. Stated here for the bodies that
\* close every string and brace they open.
C1_SplitsAtTopLevelCommas ==
    /\ (pc \in {"record", "nested"} /\ RefBalanced(body))
          => splits = RefSplits(body)
    /\ (pc = "record" /\ body = ExampleBody) => Len(values) = 3
    /\ (pc = "nested" /\ body = ExampleBody) => Len(parts) = 3

\* C19: an empty body, or a body of whitespace only, gives an empty token
\* sequence: the record has zero fields and the nested array zero elements.
C19_BlankBodyHasNoTokens ==
    Strip(body) = <<>> =>
        /\ pc = "record" => (values = <<>> /\ processed_values = <<>>)
        /\ pc = "nested" => (parts = <<>> /\ result = <<>>)

\* C20: a body of one scalar token (an integer with an optional '-', a
\* double-quoted string, nil) gives exactly one value, the integer, the text
\* without its quotes, or null, as a record field and as an element of a
\* nested array.
C20_ScalarRoundTrip ==
    \A c \in ScalarCases :
        body = c.body =>
            /\ pc = "record" => processed_values = <<c.value>>
            /\ pc = "nested" => result = <<c.value>>

\* C21: a parsed value written back in the literal syntax and parsed again
\* is the same value, and extract_nested_array applied to its own result
\* returns the result unchanged.
C21_ParsingIsIdempotent ==
    [][(pc = "nested" /\ pc' \in {"reparsed", "parsed"}) => result' = result]_vars

(***************************************************************************)
(* Resolver runs: a value and a slot are drawn, and                        *)
(* extract_ids_from_nested_string is applied.                              *)
(***************************************************************************)
MaxIds == 2
MaxText == 4
NumSlots == 3

\* Lists of ids, wrapped once and three times.
IdValues ==
    {PyInt(1), PyInt(2), PyInt(3), PyInt(5), PyInt(12), PyInt(0 - 3)}
IdLists ==
    SeqUpTo(IdValues, MaxIds) \cup {<<PyInt(1), PyInt(2), PyInt(3)>>}
Wrap1(l) == PyList(<<PyList(l)>>)
Wrap3(l) == PyList(<<PyList(<<PyList(l)>>)>>)

\* The slot-indexed form: element k is nil or the array of the ids of slot k.
SlotIds == {PyInt(7), PyInt(8)}
SlotElems == {None} \cup {PyList(l) : l \in SeqUpTo(SlotIds, MaxIds)}
SlotIndexed == {PyList(o) : o \in SeqUpTo(SlotElems, NumSlots)}

\* Arrays of at most two elements, each a scalar, a list of scalars or a
\* wrapped list of scalars.
Atoms == {None, PyInt(4), PyStr(<<"a">>)}
MixedLists == SeqUpTo(Atoms, MaxIds)
Elems ==
    Atoms \cup {PyList(m) : m \in MixedLists}
          \cup {PyList(<<PyList(m)>>) : m \in MixedLists}
GeneralArrays ==
    {PyList(<<>>)} \cup {PyList(<<e>>) : e \in Elems}
                  \cup {PyList(<<e, f>>) : e \in Elems, f \in Elems}

ExampleArray ==
    PyList(<<PyList(<<PyInt(1), PyInt(2)>>), PyList(<<PyInt(3)>>), PyList(<<>>)>>)

ParsedArrays ==
    {Wrap1(l) : l \in IdLists} \cup {Wrap3(l) : l \in IdLists}
        \cup SlotIndexed \cup GeneralArrays \cup {ExampleArray}

TextAlphabet == {"{", "}", ",", "7", QUOTE, " "}
RawTexts == {PyStr(t) : t \in SeqUpTo(TextAlphabet, MaxText)}

ResolverInputs ==
    {None, PyInt(0), PyInt(5)} \cup ParsedArrays
        \cup {PyStr(Ser(v)) : v \in ParsedArrays} \cup RawTexts

InitIds ==
    /\ pc = "arg"
    /\ nested_str \in ResolverInputs
    /\ index \in 0..(NumSlots - 1)
    /\ ids = <<>>
    /\ NoMain /\ NoTok

Resolve ==
    /\ pc = "arg"
    /\ ids' = extract_ids_from_nested_string(nested_str, index)
    /\ pc' = "ids"
    /\ UNCHANGED <<nested_str, index, mainVars, tokVars>>

NextIds == Resolve

SpecIds == InitIds /\ [][NextIds]_vars

\* The parsed array a resolver input stands for.
ParsedForm(v) == IF IsStr(v) THEN PyList(extract_nested_array(v)) ELSE v

SlotIndexedTexts == {PyStr(Ser(v)) : v \in SlotIndexed}

\* C2: for a value in the slot-indexed form (text or parsed), the resolver
\* called with slot k returns exactly the integers of element k, and nothing
\* when element k is nil or absent.
C2_SlotIndexedIds ==
    (pc = "ids" /\ nested_str \in SlotIndexed \cup SlotIndexedTexts)
      => LET o == ParsedForm(nested_str).l
         IN  ids = IF index < Len(o) /\ IsList(o[index + 1])
                   THEN o[index + 1].l ELSE <<>>

\* The wrapped inputs, each with the list it wraps.
WrappedCases ==
    UNION {{<<Wrap1(l), l>>, <<Wrap3(l), l>>, <<PyStr(Ser(Wrap1(l))), l>>,
            <<PyStr(Ser(Wrap3(l))), l>>} : l \in IdLists}
WrappedInputs == {c[1] : c \in WrappedCases}

\* C8: a list of integers wrapped once ({{1,2,3}}) or three times ({{{5}}}),
\* resolved at slot 0, gives the wrapped integers in order, as raw text and as
\* a parsed array; {{1,2},{3},{}} resolved at slot 1 gives [3].
C8_WrappedIds ==
    /\ (pc = "ids" /\ index = 0 /\ nested_str \in WrappedInputs)
          => <<nested_str, ids>> \in WrappedCases
    /\ (pc = "ids" /\ index = 1
           /\ nested_str \in {ExampleArray, PyStr(Ser(ExampleArray))})
          => ids = <<PyInt(3)>>

\* {{{5}}} as raw text has been resolved at slot 0.
C8_Witness ==
    /\ pc = "ids" /\ index = 0
    /\ nested_str = PyStr(<<"{", "{", "{", "5", "}", "}", "}">>)
    /\ ids = <<PyInt(5)>>

\* C9: whatever the input value and the slot, every element of the list the
\* resolver returns is an integer.
C9_IdsAreIntegers ==
    pc = "ids" => \A i \in 1..Len(ids) : IsInt(ids[i])

\* An array holding nil and text beside an integer has been resolved.
C9_Witness ==
    /\ pc = "ids"
    /\ nested_str = PyList(<<PyList(<<PyInt(4), PyStr(<<"a">>)>>), None>>)
    /\ ids = <<PyInt(4)>>

\* The cases of the resolver on a parsed array a, as the specification
\* lists them.
IsSingleton(a) == Len(a) = 1 /\ IsList(a[1])
IsTriple(a) == IsSingleton(a) /\ IsSingleton(a[1].l)
HasSlot(a, slot) == slot < Len(a) /\ IsList(a[slot + 1])

Integers(a) == SelectSeq(a, LAMBDA e : IsInt(e))

\* Every integer at any depth, left to right.
RECURSIVE AllIntegers(_)
AllIntegers(a) ==
    IF a = <<>> THEN <<>>
    ELSE (IF IsInt(a[1]) THEN <<a[1]>>
          ELSE IF IsList(a[1]) THEN AllIntegers(a[1].l) ELSE <<>>)
         \o AllIntegers(Tail(a))

\* C24: on a parsed array the resolver returns (1) the integers of the
\* innermost array of a triple singleton, (2) otherwise the integers of the
\* only element of a singleton, (3) otherwise the integers of element slot
\* when it is an array, (4) otherwise every integer at any depth in
\* left-to-right order.
C24_ResolverCasePriority ==
    (pc = "ids" /\ IsList(nested_str)) =>
        LET a == nested_str.l
        IN  /\ IsTriple(a) => ids = Integers(a[1].l[1].l)
            /\ (~IsTriple(a) /\ IsSingleton(a)) => ids = Integers(a[1].l)
            /\ (~IsSingleton(a) /\ HasSlot(a, index)) => ids = Integers(a[index + 1].l)
            /\ (~IsSingleton(a) /\ ~HasSlot(a, index)) => ids = AllIntegers(a)

\* {{{4, "a"}}} resolved at slot 0, where the cases (1), (2) and (3) all
\* apply and differ: case (1) has given the result.
C24_Witness ==
    /\ pc = "ids" /\ index = 0
    /\ nested_str = PyList(<<PyList(<<PyList(<<PyInt(4), PyStr(<<"a">>)>>)>>)>>)
    /\ ids = <<PyInt(4)>>

(***************************************************************************)
(* Runs of main in SQL-generation mode (--stdout or --output): the         *)
(* document is read, the field map is loaded, the records are extracted,   *)
(* mapped one by one, and the SQL text is written.                         *)
(*                                                                         *)
(* A document is an optional key section followed by a bulk-data section   *)
(* of at most MaxRecords blocks. A block is [id] = { body close: the       *)
(* closes make blocks that end in "}," or in "}", that have a surplus "}", *)
(* or that are never closed.                                               *)
(***************************************************************************)
MaxRecords == 2

KeySection ==
    << "QuestieDB.questKeys", " ", "=", " ", "{", " ",
       "[", "'", "name", "'", "]", " ", "=", " ", "1", ",", " ",
       "[", "'", "requiredLevel", "'", "]", " ", "=", " ", "2", " ", "}", "\n" >>

KeySections == {<<>>, KeySection}

DataHead == <<"QuestieDB.questData", " ", "=", " ", "[", "[", "return", " ", "{", "\n">>
DataTail == <<"}", "]", "]">>

BlockIds == {<<"7">>, <<"4", "2">>}

\* "Test Quest", 10   and   "U", {8
TestBody == <<QUOTE, "Test Quest", QUOTE, ",", " ", "1", "0">>
OpenBody == <<QUOTE, "U", QUOTE, ",", " ", "{", "8">>
BlockBodies == {TestBody, OpenBody}

BlockCloses == {<<"}", ",", "\n">>, <<"}">>, <<"}", "}", ",", "\n">>, <<",", "\n">>}

Block(id, text, close) ==
    <<"[">> \o id \o <<"]", " ", "=", " ", "{">> \o text \o close

Blocks ==
    {Block(id, text, close) : id \in BlockIds, text \in BlockBodies,
                              close \in BlockCloses}

RECURSIVE Concat(_)
Concat(ss) == IF ss = <<>> THEN <<>> ELSE ss[1] \o Concat(Tail(ss))

DataSection(bs) == DataHead \o Concat(bs) \o DataTail

\* Key sections written from a list of declarations (name, position):
\* ['name'] = 1, ['startedBy'] = 2, ...
Declared(name, at) == [name |-> name, position |-> at]

KeyEntry(entry) ==
    <<"[", "'", entry.name, "'", "]", " ", "=", " ">>
    \o NatToChars(entry.position) \o <<",", " ">>

KeyText(entries) ==
    <<"QuestieDB.questKeys", " ", "=", " ", "{", " ">>
    \o Concat([i \in 1..Len(entries) |-> KeyEntry(entries[i])]) \o <<"}", "\n">>

\* The first n names of the default map at their default positions.
FirstNames(n) == [i \in 1..n |-> Declared(FieldNames[i], i)]

\* Nine names and name declared a second time: ten declarations, nine names.
Redeclared == Append(FirstNames(MinParsedKeys - 1), Declared("name", 5))

\* Ten names, name and startedBy at each other's default position.
Swapped ==
    <<Declared("name", 2), Declared("startedBy", 1)>>
    \o SubSeq(FirstNames(MinParsedKeys), 3, MinParsedKeys)

\* Ten names, one of them unknown to the default map.
WithUnknown == Append(FirstNames(MinParsedKeys - 1), Declared("extra", 30))

Declarations ==
    { FirstNames(0), FirstNames(MinParsedKeys - 1), FirstNames(MinParsedKeys),
      FirstNames(MinParsedKeys + 1), Redeclared, Swapped, WithUnknown,
      <<Declared("name", 1), Declared("requiredLevel", 2)>>,
      <<Declared("startedBy", 0)>> }

\* [7] = {"Test Quest", 10},   and   [42] = {},   and   [42] = {{8},
FullBlock == Block(<<"7">>, TestBody, <<"}", ",", "\n">>)
EmptyBlock == Block(<<"4", "2">>, <<>>, <<"}", ",", "\n">>)
NestedBlock == Block(<<"4", "2">>, <<"{", "8">>, <<"}", ",", "\n">>)

Documents ==
    {ks \o DataSection(bs) : ks \in KeySections, bs \in SeqUpTo(Blocks, MaxRecords)}
    \cup KeySections
    \cup {KeyText(entries) \o DataSection(bs) :
             entries \in Declarations,
             bs \in SeqUpTo({FullBlock, EmptyBlock, NestedBlock}, MaxRecords)}

\* create_tables_sql(): the DDL text, one symbol.
CreateTablesSql == "create_tables_sql"

Init ==
    /\ pc = "main"
    /\ lua_content \in Documents
    /\ quest_keys = <<>> /\ quests = <<>> /\ sql = <<>> /\ cursor = <<>>
    /\ position = 0 /\ errors = <<>> /\ raised = "none" /\ output = <<>>
    /\ conn = "none"
    /\ NoTok /\ NoIds

\* main, line 1079.
ParseKeys ==
    /\ pc = "main"
    /\ quest_keys' = parse_lua_questKeys(lua_content)
    /\ pc' = "keys"
    /\ UNCHANGED <<lua_content, quests, sql, cursor, position, errors, raised,
                   output, conn, tokVars, idsVars>>

\* main, line 1082; the ValueError of a missing section is caught at line
\* 1254 and ends the run.
ExtractQuests ==
    /\ pc = "keys"
    /\ LET r == extract_quests(lua_content)
       IN  /\ quests' = r.quests
           /\ raised' = IF r.found THEN "none" ELSE "ValueError"
           /\ pc' = IF r.found THEN "quests" ELSE "error"
    /\ UNCHANGED <<lua_content, quest_keys, sql, cursor, position, errors,
                   output, conn, tokVars, idsVars>>

\* generate_insert_sql, lines 266-303: the default positions are written
\* into quest_keys for the names it lacks.
GenerateBegin ==
    /\ pc = "quests"
    /\ quest_keys' = WithDefaults(quest_keys, default_keys)
    /\ sql' = <<>>
    /\ position' = 0
    /\ pc' = "generate"
    /\ UNCHANGED <<lua_content, quests, cursor, errors, raised, output,
                   conn, tokVars, idsVars>>

\* generate_insert_sql, lines 305-630: one iteration of the loop; an
\* exception is caught, printed, and the loop goes on.
Logged(quest_id, r) ==
    IF r.error = "none" THEN errors
    ELSE Append(errors, [id |-> quest_id, error |-> r.error, key |-> r.key])

\* A loop in which the exception of a record discards the statements of
\* the records before it.
GeneratedRecord_Resetting(quest_id, r) ==
    /\ sql' = (IF r.error = "none" THEN sql \o r.rows ELSE <<>>)
    /\ errors' = Logged(quest_id, r)
    /\ position' = position + 1

GeneratedRecord(quest_id, r) ==
    /\ sql' = sql \o r.rows
    /\ errors' = Logged(quest_id, r)
    /\ position' = position + 1

GenerateRecord ==
    /\ pc = "generate"
    /\ position < Len(quests)
    /\ GeneratedRecord(quests[position + 1].id,
                       GenRecord(quests[position + 1].id,
                                 quests[position + 1].values, quest_keys))
    /\ UNCHANGED <<pc, lua_content, quest_keys, quests, cursor, raised, output,
                   conn, tokVars, idsVars>>

\* generate_insert_sql, line 632.
GenerateReturn ==
    /\ pc = "generate"
    /\ position = Len(quests)
    /\ pc' = "generated"
    /\ UNCHANGED <<lua_content, quest_keys, quests, sql, cursor, position,
                   errors, raised, output, conn, tokVars, idsVars>>

\* main, lines 1211-1220.
WriteSql ==
    /\ pc = "generated"
    /\ output' = <<CreateTablesSql>> \o sql
    /\ pc' = "done"
    /\ UNCHANGED <<lua_content, quest_keys, quests, sql, cursor, position,
                   errors, raised, conn, tokVars, idsVars>>

\* main, lines 1204-1206 and 1223-1227: no sink can be used (neither
\* credentials nor --output nor --stdout, or direct mode without the
\* connector); the run prints an error and returns.
NoSink ==
    /\ pc = "quests"
    /\ pc' = "returned"
    /\ UNCHANGED <<mainVars, tokVars, idsVars>>

\* main, lines 1230-1238: the connection is made and a cursor opened; the
\* connector starts a transaction that lasts until commit or rollback.
Connect ==
    /\ pc = "quests"
    /\ conn' = "open"
    /\ pc' = "connected"
    /\ UNCHANGED <<lua_content, quest_keys, quests, sql, cursor, position,
                   errors, raised, output, tokVars, idsVars>>

\* main, lines 1230-1236: mysql.connector.connect raises; conn is not bound.
ConnectFails ==
    /\ pc = "quests"
    /\ raised' = "Error"
    /\ pc' = "error"
    /\ UNCHANGED <<lua_content, quest_keys, quests, sql, cursor, position,
                   errors, output, conn, tokVars, idsVars>>

\* main, line 1241: the name create_tables is defined nowhere in the file
\* (the function defined is create_tables_sql), so the call raises NameError.
CreateTables ==
    /\ pc = "connected"
    /\ raised' = "NameError"
    /\ pc' = "error"
    /\ UNCHANGED <<lua_content, quest_keys, quests, sql, cursor, position,
                   errors, output, conn, tokVars, idsVars>>

\* main, lines 1254-1260: the handler of every exception of the run; an open
\* connection is rolled back and closed.
HandleError ==
    /\ pc \in {"error", "raised"}
    /\ conn' = (IF conn = "open" THEN "rolled back" ELSE conn)
    /\ pc' = "failed"
    /\ UNCHANGED <<lua_content, quest_keys, quests, sql, cursor, position,
                   errors, raised, output, tokVars, idsVars>>

Next ==
    \/ ParseKeys
    \/ ExtractQuests
    \/ GenerateBegin
    \/ GenerateRecord
    \/ GenerateReturn
    \/ WriteSql
    \/ NoSink
    \/ Connect
    \/ ConnectFails
    \/ CreateTables
    \/ HandleError

Spec == Init /\ [][Next]_vars

(***************************************************************************)
(* The blocks of a document as the specification delimits them: a block    *)
(* runs from one [id] marker to the next marker or to the end of the       *)
(* section. No body of the documents above holds a "[", so the markers are *)
(* the "[" of the section.                                                 *)
(***************************************************************************)
HasData(text) == \E i \in 1..Len(text) : text[i] = "QuestieDB.questData"

RefData(text) ==
    LET h == CHOOSE i \in 1..Len(text) : text[i] = "QuestieDB.questData"
    IN  SubSeq(text, h + Len(DataHead), Len(text) - Len(DataTail))

RefBlocks(text) ==
    LET data == RefData(text)
        marks == {i \in 1..Len(data) : data[i] = "["}
        Mark(n) == CHOOSE i \in marks : Cardinality({j \in marks : j < i}) = n - 1
    IN  [n \in 1..Cardinality(marks) |->
            SubSeq(data, Mark(n),
                   IF n = Cardinality(marks) THEN Len(data) ELSE Mark(n + 1) - 1)]

Count(text, c) == Cardinality({i \in 1..Len(text) : text[i] = c})

\* Braces opened and not closed in the first i characters of the block.
RefDepth(block, i) ==
    Count(SubSeq(block, 1, i), "{") - Count(SubSeq(block, 1, i), "}")

Unterminated(block) == RefDepth(block, Len(block)) > 0
Surplus(block) == \E i \in 1..Len(block) : RefDepth(block, i) < 0
Unbalanced(block) == Unterminated(block) \/ Surplus(block)

LastOf(text, c) == CHOOSE i \in 1..Len(text) : text[i] = c /\ \A j \in (i + 1)..Len(text) : text[j] # c
FirstOf(text, c) == CHOOSE i \in 1..Len(text) : text[i] = c /\ \A j \in 1..(i - 1) : text[j] # c

\* Balanced braces, and nothing but a comma and whitespace after the last.
WellFormed(block) ==
    /\ ~Unbalanced(block)
    /\ \A i \in (LastOf(block, "}") + 1)..Len(block) :
           block[i] \in Whitespace \cup {","}

EndsWithComma(block) == \E i \in (LastOf(block, "}") + 1)..Len(block) : block[i] = ","

BlockId(block) == IntOfDigits(SubSeq(block, 2, FirstOf(block, "]") - 1))

\* The fields written between the outer braces of a well-formed block.
BlockFields(block) ==
    ProcessValues(ScanRecord(SubSeq(block, FirstOf(block, "{") + 1,
                                    LastOf(block, "}") - 1)).values)

UniqueId(blocks, n) == \A m \in 1..Len(blocks) : m # n => BlockId(blocks[m]) # BlockId(blocks[n])

Extracted == pc \in {"quests", "generate", "generated", "done"}

RowId(row) == IF row.table = "quests" THEN row.id ELSE row.quest_id

\* The section is a Lua table of well-formed blocks separated by commas; the
\* last block may or may not be followed by a comma.
LuaTable(blocks) ==
    /\ \A n \in 1..Len(blocks) : WellFormed(blocks[n]) /\ UniqueId(blocks, n)
    /\ \A n \in 1..(Len(blocks) - 1) : EndsWithComma(blocks[n])

\* C3: every [id] = { ... } block of the bulk-data section yields one
\* extracted record holding the fields of the block, whether the block is
\* followed by another [digits] marker or by the end of the section (the last
\* block included). Stated for the sections that are Lua tables of well-formed
\* blocks with distinct ids.
C3_EveryBlockYieldsRecord ==
    (Extracted /\ LuaTable(RefBlocks(lua_content))) =>
        \A n \in 1..Len(RefBlocks(lua_content)) :
            \E m \in 1..Len(quests) :
                /\ quests[m].id = BlockId(RefBlocks(lua_content)[n])
                /\ quests[m].values = BlockFields(RefBlocks(lua_content)[n])

\* C4: a record block whose braces are unbalanced (an unterminated "{" or a
\* surplus "}") is skipped: the output holds no quests row and no relation
\* tuple with the id of that block (no other block of the document has it).
C4_UnbalancedBlockSkipped ==
    pc = "done" =>
        \A n \in 1..Len(RefBlocks(lua_content)) :
            (Unbalanced(RefBlocks(lua_content)[n]) /\ UniqueId(RefBlocks(lua_content), n))
                => \A k \in 1..Len(sql) :
                       RowId(sql[k]) # BlockId(RefBlocks(lua_content)[n])

\* The document holds exactly one block with an unterminated brace, and its
\* other blocks are well-formed, end with a comma and have distinct ids.
OneUnterminated(blocks) ==
    /\ Cardinality({n \in 1..Len(blocks) : Unterminated(blocks[n])}) = 1
    /\ \A n \in 1..Len(blocks) :
           \/ Unterminated(blocks[n])
           \/ WellFormed(blocks[n]) /\ EndsWithComma(blocks[n]) /\ UniqueId(blocks, n)

\* C5: in a document with one block whose brace is unterminated, every other
\* well-formed block, before or after it, is extracted with its own id and
\* its own fields and produces its quests row.
C5_OtherRecordsSurvive ==
    (pc = "done" /\ OneUnterminated(RefBlocks(lua_content))) =>
        \A n \in 1..Len(RefBlocks(lua_content)) :
            WellFormed(RefBlocks(lua_content)[n]) =>
                /\ \E m \in 1..Len(quests) :
                       /\ quests[m].id = BlockId(RefBlocks(lua_content)[n])
                       /\ quests[m].values = BlockFields(RefBlocks(lua_content)[n])
                /\ \E k \in 1..Len(sql) :
                       /\ sql[k].table = "quests"
                       /\ sql[k].id = BlockId(RefBlocks(lua_content)[n])

\* The document of C7: name at position 1, requiredLevel at position 2, and
\* the single record [42] = {"Test Quest", 10}.
TestDocument ==
    KeySection \o DataSection(<<Block(<<"4", "2">>, TestBody, <<"}">>)>>)

TestRow ==
    [table |-> "quests", id |-> 42,
     name |-> SqlQuoted(<<"Test Quest">>),
     required_level |-> SqlBare(PyInt(10)),
     quest_level |-> SqlNULL, required_races |-> SqlNULL,
     required_classes |-> SqlNULL, zone_or_sort |-> SqlNULL,
     required_skill_id |-> SqlNULL, required_skill_value |-> SqlNULL,
     required_min_rep_faction |-> SqlNULL, required_min_rep_value |-> SqlNULL,
     required_max_rep_faction |-> SqlNULL, required_max_rep_value |-> SqlNULL,
     source_item_id |-> SqlNULL, next_quest_in_chain |-> SqlNULL,
     quest_flags |-> SqlNULL, special_flags |-> SqlNULL,
     parent_quest |-> SqlNULL]

\* C7: end to end, the document that declares name at position 1 and
\* requiredLevel at position 2 and holds the single record
\* [42] = {"Test Quest", 10} yields exactly one quests row (id 42, name
\* "Test Quest", required_level 10, every other column NULL) and no relation
\* tuple.
C7_EndToEnd ==
    (pc = "done" /\ lua_content = TestDocument) =>
        /\ sql = <<TestRow>>
        /\ output = <<CreateTablesSql, TestRow>>

\* C11: when the document has no bulk-data section the run is fatal with no
\* partial output: extract_quests raises ValueError, which ends the run in
\* the handler of main; no SQL is generated or written to stdout or to the
\* output file, no connection is opened and no statement is executed.
C11_MissingSectionIsFatal ==
    ~HasData(lua_content) =>
        /\ output = <<>> /\ sql = <<>> /\ cursor = <<>> /\ conn = "none"
        /\ pc \in {"main", "keys", "error", "failed"}
        /\ pc \in {"error", "failed"} => raised = "ValueError"

\* The run on a document without the section has ended in the handler.
C11_Witness ==
    /\ ~HasData(lua_content)
    /\ pc = "failed"
    /\ raised = "ValueError"
    /\ output = <<>>

(***************************************************************************)
(* The key section of a document as it was written: the declarations, in   *)
(* order. A name declared twice has the position of its last declaration.  *)
(***************************************************************************)
HasKeys(text) == \E i \in 1..Len(text) : text[i] = "QuestieDB.questKeys"

KeyCases ==
    {[text |-> KeyText(entries), entries |-> entries] : entries \in Declarations}
    \cup {[text |-> KeySection,
            entries |-> <<Declared("name", 1), Declared("requiredLevel", 2)>>]}

DeclaredIn(text) ==
    (CHOOSE case \in KeyCases : StartsWith(text, case.text)).entries

DeclaredNames(entries) == {<<entries[i].name>> : i \in 1..Len(entries)}

DeclaredPosition(entries, key) ==
    LET at == {i \in 1..Len(entries) : <<entries[i].name>> = key}
    IN  entries[CHOOSE i \in at : \A j \in at : j <= i].position

\* The loader has returned and no later step has run on the map.
Loaded == pc \in {"keys", "quests", "error", "returned", "connected", "failed"}

\* C12: the loader merges the default map exactly when the key section is
\* not found or yields fewer than 10 names. A missing section gives the whole
\* default map and the run goes on; every declared name keeps its declared
\* position; with fewer than 10 names the map holds in addition the default
\* position of every default name that was not declared, and with 10 names
\* or more it holds the declared names only.
C12_DefaultsFillGaps ==
    Loaded =>
        IF ~HasKeys(lua_content) THEN quest_keys = default_keys
        ELSE /\ \A key \in DeclaredNames(DeclaredIn(lua_content)) :
                    /\ key \in DOMAIN quest_keys
                    /\ quest_keys[key] = DeclaredPosition(DeclaredIn(lua_content), key)
             /\ IF Cardinality(DeclaredNames(DeclaredIn(lua_content))) < 10
                THEN /\ DOMAIN quest_keys = DeclaredNames(DeclaredIn(lua_content))
                                                \cup DOMAIN default_keys
                     /\ \A key \in DOMAIN default_keys
                                        \ DeclaredNames(DeclaredIn(lua_content)) :
                            quest_keys[key] = default_keys[key]
                ELSE DOMAIN quest_keys = DeclaredNames(DeclaredIn(lua_content))

\* A section of two names has been loaded: requiredLevel keeps its declared
\* position 2 and startedBy is filled at its default position.
C12_Witness ==
    /\ pc = "keys"
    /\ raised = "none"
    /\ HasKeys(lua_content)
    /\ DeclaredNames(DeclaredIn(lua_content)) = {<<"name">>, <<"requiredLevel">>}
    /\ quest_keys[<<"requiredLevel">>] = 2
    /\ quest_keys[<<"startedBy">>] = default_keys[<<"startedBy">>]
    /\ DOMAIN quest_keys = DOMAIN default_keys

\* C13: in every field map the loader returns (parsed only, default only, or
\* parsed with the defaults filled in) no two names have the same position.
C13_PositionsAreUnique ==
    Loaded =>
        \A k1 \in DOMAIN quest_keys : \A k2 \in DOMAIN quest_keys :
            k1 # k2 => quest_keys[k1] # quest_keys[k2]

\* C14: after the loader has returned it, the field map is read-only: no
\* later step of the run adds, removes or changes an entry of it.
C14_FieldMapIsFrozen == [][pc # "main" => quest_keys' = quest_keys]_vars

\* The records of the run whose mapping raised, and the others.
FailedIds == {errors[e].id : e \in 1..Len(errors)}

MappedCleanly == SelectSeq(quests, LAMBDA rec : rec.id \notin FailedIds)

\* C15: in the SQL-generation path a record whose mapping raises an error is
\* isolated: the statement list holds no statement with the id of that
\* record, and the statements of the other records are those of a run
\* without the failing record, in the same order.
C15_FailedRecordIsIsolated ==
    pc \in {"generated", "done"} =>
        /\ \A k \in 1..Len(sql) : RowId(sql[k]) \notin FailedIds
        /\ SelectSeq(sql, LAMBDA row : RowId(row) \notin FailedIds)
               = Concat([n \in 1..Len(MappedCleanly) |->
                            GenRecord(MappedCleanly[n].id, MappedCleanly[n].values,
                                      quest_keys).rows])

(***************************************************************************)
(* Mapper runs: a field map and a dictionary of records are drawn, and     *)
(* generate_insert_sql or insert_quest_data is applied to them.            *)
(*                                                                         *)
(* The field maps are the default map, its rotations (so that every field  *)
(* name is read at position 1 in some map) and the map of the positions    *)
(* 0..25. The fields of a record are values extract_quests returns: None,  *)
(* an int or a str.                                                        *)
(***************************************************************************)
MaxFields == 2
MaxRewards == 4
MaxTexts == 3
MaxEntries == 2

Rotated(shift) ==
    [key \in DOMAIN default_keys |->
        ((default_keys[key] - 1 + shift) % Len(FieldNames)) + 1]

ZeroBased == [key \in DOMAIN default_keys |-> default_keys[key] - 1]

KeyMaps == {Rotated(shift) : shift \in 0..(Len(FieldNames) - 1)} \cup {ZeroBased}

\* The map the loader returns for the key section { ['startedBy'] = 0 }.
StartsAtZero == WithDefaults(<<"startedBy">> :> 0, default_keys)

\* The map the loader returns for a key section that declares the first
\* MinParsedKeys names of the default map at their default positions: the
\* declared names only.
DeclaredOnly ==
    [key \in {<<FieldNames[i]>> : i \in 1..MinParsedKeys} |-> default_keys[key]]

\* The field whose text is the literal syntax of the array l.
ArrayText(l) == PyStr(Ser(PyList(l)))

FieldValues ==
    { None, PyInt(0), PyInt(7), PyStr(<<>>), PyStr(<<"T", "'", "s">>),
      ArrayText(<<PyInt(7), PyInt(8)>>),
      ArrayText(<<PyList(<<PyInt(7)>>), PyList(<<PyInt(8)>>)>>),
      ArrayText(<<PyList(<<PyList(<<PyInt(7), PyStr(<<"x">>)>>),
                           PyList(<<PyInt(8)>>)>>)>>),
      ArrayText(<<PyStr(<<"a">>), PyStr(<<>>), PyStr(<<"b">>)>>),
      ArrayText(<<None, None, None, PyList(<<PyInt(9), PyInt(5)>>),
                  PyList(<<PyList(<<PyInt(1), PyInt(7), PyStr(<<"k">>)>>)>>)>>) }

Records == SeqUpTo(FieldValues, MaxFields)

\* Flat arrays of integers, and the array {100, 5, 200, -3} as it is written.
RewardLists == SeqUpTo({PyInt(5), PyInt(0 - 3)}, MaxRewards)

ExampleRewards ==
    PyStr(<<"{", "1", "0", "0", ",", " ", "5", ",", " ", "2", "0", "0", ",",
            " ", "-", "3", "}">>)

RewardRecords == {<<ArrayText(l)>> : l \in RewardLists} \cup {<<ExampleRewards>>}

\* Arrays of objective texts with nil and empty strings among them, read
\* under the rotation of the default map that has objectivesText first.
TextLists == SeqUpTo({None, PyStr(<<>>), PyStr(<<"a">>), PyStr(<<"b">>)}, MaxTexts)

TextsFirst == Rotated(Len(FieldNames) + 1 - default_keys[<<"objectivesText">>])

\* Objectives arrays, read under the rotation of the default map that has
\* objectives first: the entries of one slot behind nil elements, the
\* reputation pair at slot 3, a slot that is no array, and all slots filled.
SlotEntries ==
    { <<PyInt(5)>>, <<PyInt(5), PyStr(<<"t">>)>>, <<PyInt(5), PyStr(<<>>)>>,
      <<PyStr(<<"x">>), PyStr(<<"t">>)>>, <<PyInt(1), PyInt(7), PyStr(<<"k">>)>>,
      <<PyInt(1), PyInt(7)>> }

NumObjectiveSlots == 5

AtSlot(slot, v) == [i \in 1..slot |-> None] \o <<v>>

SlotArrays ==
    {AtSlot(slot, PyList(entries)) :
        slot \in 0..(NumObjectiveSlots - 1),
        entries \in SeqUpTo({PyList(e) : e \in SlotEntries}, MaxEntries)}

ReputationArrays ==
    {AtSlot(3, PyList(pair)) :
        pair \in {<<PyInt(9), PyInt(5)>>, <<PyInt(9)>>, <<PyInt(0), PyInt(5)>>,
                  <<PyInt(9), PyStr(<<"v">>)>>}}

ScalarSlotArrays ==
    {AtSlot(slot, v) : slot \in 0..(NumObjectiveSlots - 1),
                       v \in {PyInt(3), PyStr(<<"x">>)}}

FullObjectives ==
    << PyList(<<PyList(<<PyInt(5), PyStr(<<"t">>)>>)>>),
       PyList(<<PyList(<<PyInt(6)>>)>>),
       PyList(<<PyList(<<PyInt(7), PyStr(<<"T", "'", "s">>)>>)>>),
       PyList(<<PyInt(9), PyInt(5)>>),
       PyList(<<PyList(<<PyInt(1), PyInt(8), PyStr(<<"k">>)>>)>>) >>

\* A slot that is a string whose text has the syntax of an array.
TextSlotArrays ==
    { AtSlot(0, PyStr(Ser(PyList(<<PyList(<<PyInt(5)>>)>>)))),
      AtSlot(3, PyStr(Ser(PyList(<<PyInt(9), PyInt(5)>>)))) }

ObjectiveArrays ==
    SlotArrays \cup ReputationArrays \cup ScalarSlotArrays \cup TextSlotArrays
    \cup {FullObjectives}

ObjectivesFirst == Rotated(Len(FieldNames) + 1 - default_keys[<<"objectives">>])

\* Two records under the default map: the second has an int where the name is.
PairedRecords ==
    { <<PyStr(<<"T", "'", "s">>), ArrayText(<<PyList(<<PyInt(7)>>)>>)>>,
      <<PyStr(<<"Q">>), ArrayText(<<PyList(<<PyInt(7), PyInt(7)>>)>>)>>,
      <<PyInt(7)>>, <<>> }

MapInputs ==
    {<<keys, <<[id |-> 42, values |-> r]>>>> : keys \in KeyMaps, r \in Records}
    \cup {<<Rotated(1), <<[id |-> 42, values |-> r]>>>> : r \in RewardRecords}
    \cup {<<TextsFirst, <<[id |-> 42, values |-> <<ArrayText(l)>>]>>>> : l \in TextLists}
    \cup {<<ObjectivesFirst, <<[id |-> 42, values |-> <<ArrayText(o)>>]>>>> :
             o \in ObjectiveArrays}
    \cup {<<DeclaredOnly, <<[id |-> 42, values |-> r]>>>> : r \in PairedRecords}
    \cup {<<default_keys, <<[id |-> 7, values |-> r1], [id |-> 42, values |-> r2]>>>> :
             r1 \in PairedRecords, r2 \in PairedRecords}
    \cup {<<StartsAtZero, <<[id |-> 7, values |-> r1], [id |-> 42, values |-> r2]>>>> :
             r1 \in PairedRecords, r2 \in PairedRecords}

InitMap ==
    /\ pc \in {"quests", "insert"}
    /\ \E input \in MapInputs : quest_keys = input[1] /\ quests = input[2]
    /\ lua_content = <<>> /\ sql = <<>> /\ cursor = <<>> /\ position = 0
    /\ errors = <<>> /\ raised = "none" /\ output = <<>>
    /\ conn = (IF pc = "insert" THEN "open" ELSE "none")
    /\ NoTok /\ NoIds

\* A loop that logs the exception of a record and goes on with the next, as
\* the loop of generate_insert_sql does.
InsertedRecord_Continues(quest_id, r) ==
    /\ cursor' = cursor \o r.rows
    /\ errors' = Logged(quest_id, r)
    /\ raised' = r.error
    /\ pc' = "insert"
    /\ position' = position + 1

\* insert_quest_data, lines 779-1054: one iteration of the loop; an
\* exception leaves the function, after the statements executed before it.
InsertedRecord(quest_id, r) ==
    /\ cursor' = cursor \o r.rows
    /\ errors' = Logged(quest_id, r)
    /\ raised' = r.error
    /\ pc' = IF r.error = "none" THEN "insert" ELSE "raised"
    /\ position' = IF r.error = "none" THEN position + 1 ELSE position

InsertRecord ==
    /\ pc = "insert"
    /\ position < Len(quests)
    /\ InsertedRecord(quests[position + 1].id,
                      InsRecord(quests[position + 1].id,
                                quests[position + 1].values, quest_keys))
    /\ UNCHANGED <<lua_content, quest_keys, quests, sql, output, conn, tokVars, idsVars>>

\* insert_quest_data returns after the last record.
InsertReturn ==
    /\ pc = "insert"
    /\ position = Len(quests)
    /\ pc' = "inserted"
    /\ UNCHANGED <<lua_content, quest_keys, quests, sql, cursor, position,
                   errors, raised, output, conn, tokVars, idsVars>>

\* main, lines 1246-1252: the commit after insert_quest_data has returned.
Commit ==
    /\ pc = "inserted"
    /\ conn = "open"
    /\ conn' = "committed"
    /\ pc' = "imported"
    /\ UNCHANGED <<lua_content, quest_keys, quests, sql, cursor, position,
                   errors, raised, output, tokVars, idsVars>>

NextMap ==
    \/ GenerateBegin
    \/ GenerateRecord
    \/ GenerateReturn
    \/ InsertRecord
    \/ InsertReturn
    \/ Commit
    \/ HandleError

SpecMap == InitMap /\ [][NextMap]_vars

(***************************************************************************)
(* What the mapper is said to write, stated over the statements of a run:  *)
(* the columns of the quests row a scalar field fills, and the table (and  *)
(* relationship type) whose tuples a relation field fills.                 *)
(***************************************************************************)
Statements == sql \o cursor

ScalarColumns ==
    [ name |-> {"name"},
      requiredLevel |-> {"required_level"},
      questLevel |-> {"quest_level"},
      requiredRaces |-> {"required_races"},
      requiredClasses |-> {"required_classes"},
      zoneOrSort |-> {"zone_or_sort"},
      requiredSkill |-> {"required_skill_id", "required_skill_value"},
      requiredMinRep |-> {"required_min_rep_faction", "required_min_rep_value"},
      requiredMaxRep |-> {"required_max_rep_faction", "required_max_rep_value"},
      sourceItemId |-> {"source_item_id"},
      nextQuestInChain |-> {"next_quest_in_chain"},
      questFlags |-> {"quest_flags"},
      specialFlags |-> {"special_flags"},
      parentQuest |-> {"parent_quest"} ]

RelationOf ==
    [ objectivesText |-> [table |-> "quest_objective_texts", kind |-> ""],
      startedBy |-> [table |-> "quest_starters", kind |-> ""],
      finishedBy |-> [table |-> "quest_finishers", kind |-> ""],
      preQuestGroup |-> [table |-> "quest_relationships", kind |-> "prereq_group"],
      preQuestSingle |-> [table |-> "quest_relationships", kind |-> "prereq_single"],
      childQuests |-> [table |-> "quest_relationships", kind |-> "child"],
      inGroupWith |-> [table |-> "quest_relationships", kind |-> "in_group"],
      exclusiveTo |-> [table |-> "quest_relationships", kind |-> "exclusive"],
      requiredSourceItems |-> [table |-> "quest_required_items", kind |-> ""],
      reputationReward |-> [table |-> "quest_reputation_rewards", kind |-> ""],
      objectives |-> [table |-> "quest_objectives", kind |-> ""] ]

MappedFields == DOMAIN ScalarColumns \cup DOMAIN RelationOf

\* NULL as either path writes it: the bare text NULL, or the parameter None.
IsNull(column) == column = SqlNULL \/ column = None

\* The field has a position in the map, and it exceeds the field count of
\* the record.
OutOfRange(rec, key) ==
    /\ <<key>> \in DOMAIN quest_keys
    /\ quest_keys[<<key>>] > Len(rec.values)

\* The statement is a tuple of the relation the field fills.
TupleOf(row, key) ==
    /\ row.table = RelationOf[key].table
    /\ row.table = "quest_relationships" => row.relationship_type = RelationOf[key].kind

RowsOf(rec) == SelectSeq(Statements, LAMBDA row : RowId(row) = rec.id)

ErrorsOf(rec) == SelectSeq(errors, LAMBDA e : e.id = rec.id)

\* The mapping loop has been through the record, to its end or to an error.
Mapped(n) == n <= position \/ ErrorsOf(quests[n]) # <<>>

\* C6: for every record the mapper has been through and every field name
\* whose position in the field map exceeds the field count of the record, each
\* scalar column of the quests row filled from that field is NULL, no tuple
\* of the relation filled from that field is written for the record, and no
\* error is raised by that field; a record that raised no error has its
\* quests row.
C6_OutOfRangeFieldIsNull ==
    \A n \in 1..Len(quests) :
        Mapped(n) =>
            /\ \A key \in MappedFields :
                   OutOfRange(quests[n], key) =>
                       /\ \A i \in 1..Len(RowsOf(quests[n])) :
                              /\ (RowsOf(quests[n])[i].table = "quests"
                                     /\ key \in DOMAIN ScalarColumns)
                                 => \A c \in ScalarColumns[key] :
                                        IsNull(RowsOf(quests[n])[i][c])
                              /\ key \in DOMAIN RelationOf
                                 => ~TupleOf(RowsOf(quests[n])[i], key)
                       /\ \A e \in 1..Len(ErrorsOf(quests[n])) :
                              ErrorsOf(quests[n])[e].key # key
            /\ ErrorsOf(quests[n]) = <<>>
               => \E i \in 1..Len(RowsOf(quests[n])) :
                      RowsOf(quests[n])[i].table = "quests"

\* A record of one field whose name is in range and written, whose
\* requiredLevel and startedBy are out of range, mapped by either path.
C6_Witness ==
    /\ pc \in {"generated", "inserted"}
    /\ Len(quests) = 1 /\ Len(quests[1].values) = 1
    /\ ~OutOfRange(quests[1], "name")
    /\ OutOfRange(quests[1], "requiredLevel")
    /\ OutOfRange(quests[1], "startedBy")
    /\ errors = <<>>
    /\ Len(Statements) = 1
    /\ Statements[1].table = "quests"
    /\ ~IsNull(Statements[1].name)
    /\ IsNull(Statements[1].required_level)

(***************************************************************************)
(* The reputation rewards of a record, as the pairs (faction_id, value) in *)
(* the order they are written, and the cases of the flat arrays: the text  *)
(* of the field and the integers it lists.                                 *)
(***************************************************************************)
RewardTuples(rec) ==
    LET rows == SelectSeq(Statements,
                    LAMBDA row : /\ row.table = "quest_reputation_rewards"
                                 /\ row.quest_id = rec.id)
    IN  [n \in 1..Len(rows) |-> <<rows[n].faction_id, rows[n].value>>]

IntsOfList(l) == [n \in 1..Len(l) |-> l[n].i]

RewardCases ==
    {[text |-> ArrayText(l), ints |-> IntsOfList(l)] : l \in RewardLists}
    \cup {[text |-> ExampleRewards, ints |-> <<100, 5, 200, 0 - 3>>]}

\* The elements (0,1), (2,3), ... of a list, a trailing single element left out.
ConsecutivePairs(ints) ==
    [j \in 1..(Len(ints) \div 2) |-> <<ints[2 * j - 1], ints[2 * j]>>]

\* The record has the field reputationReward, and it holds the text.
HoldsRewards(rec, text) ==
    /\ quest_keys[<<"reputationReward">>] \in 1..Len(rec.values)
    /\ rec.values[quest_keys[<<"reputationReward">>]] = text

\* C10: for every record mapped without error whose reputationReward field
\* holds a flat array of n integers, the ReputationReward tuples written for
\* the record are exactly the pairs of the elements (0,1), (2,3), ... in
\* order: floor(n/2) tuples, none for a trailing element without partner,
\* and (100,5), (200,-3) for {100, 5, 200, -3}; in both paths.
C10_RewardsAreConsecutivePairs ==
    \A n \in 1..Len(quests) :
        (n <= position /\ ErrorsOf(quests[n]) = <<>>) =>
            \A case \in RewardCases :
                HoldsRewards(quests[n], case.text) =>
                    /\ RewardTuples(quests[n]) = ConsecutivePairs(case.ints)
                    /\ Len(RewardTuples(quests[n])) = Len(case.ints) \div 2

\* The array {100, 5, 200, -3} has been mapped to its two tuples.
C10_Witness ==
    /\ pc \in {"generated", "inserted"}
    /\ Len(quests) = 1
    /\ HoldsRewards(quests[1], ExampleRewards)
    /\ RewardTuples(quests[1]) = << <<100, 5>>, <<200, 0 - 3>> >>

(***************************************************************************)
(* The direct-statement path after an exception of the mapper.             *)
(***************************************************************************)
\* The rows the database keeps: those of a committed transaction.
Persisted == IF conn = "committed" THEN cursor ELSE <<>>

\* The ids of the records up to and including the one being mapped.
ReachedIds == {quests[n].id : n \in 1..Min({position + 1, Len(quests)})}

\* C16: in the direct-statement path an exception raised while a record is
\* mapped ends the run: the record stays the last one mapped (every
\* statement executed has the id of that record or of one before it), the
\* transaction is never committed and is rolled back by the handler, and no
\* row is persisted.
C16_MappingErrorIsFatal ==
    raised # "none" =>
        /\ pc \in {"raised", "failed"}
        /\ position < Len(quests)
        /\ Len(errors) = 1 /\ errors[1].id = quests[position + 1].id
        /\ \A k \in 1..Len(cursor) : RowId(cursor[k]) \in ReachedIds
        /\ conn = (IF pc = "failed" THEN "rolled back" ELSE "open")
        /\ Persisted = <<>>

\* A first record that raises after its quests row was executed, with a
\* second record behind it, after the handler has run.
C16_Witness ==
    /\ pc = "failed" /\ raised = "IndexError"
    /\ conn = "rolled back"
    /\ position = 0 /\ Len(quests) = 2
    /\ cursor # <<>>

(***************************************************************************)
(* Referential integrity of the statements.                                *)
(***************************************************************************)
RecordIds == {quests[n].id : n \in 1..Len(quests)}

\* The statement k is the quests row of the id the statement j carries, and
\* comes before it.
QuestsRowBefore(j) ==
    \E k \in 1..(j - 1) :
        Statements[k].table = "quests" /\ Statements[k].id = RowId(Statements[j])

\* C17: every relation tuple carries the id of an extracted record and comes
\* after the quests row of that id in the statement sequence; no relation
\* tuple is emitted for an id without a quests row.
C17_RelationsFollowQuestsRow ==
    \A j \in 1..Len(Statements) :
        Statements[j].table # "quests" =>
            /\ RowId(Statements[j]) \in RecordIds
            /\ QuestsRowBefore(j)

\* Two records mapped to the end, each with a starter tuple.
C17_Witness ==
    /\ pc \in {"generated", "inserted"}
    /\ Len(quests) = 2
    /\ \E j \in 1..Len(Statements) :
           Statements[j].table = "quest_starters" /\ Statements[j].quest_id = 42
    /\ \E j \in 1..Len(Statements) :
           Statements[j].table = "quest_starters" /\ Statements[j].quest_id = 7

(***************************************************************************)
(* The objective texts of a record, as the pairs (idx, text) in the order  *)
(* they are written, and the pairs an array of texts is said to give.      *)
(***************************************************************************)
\* The text of a column written as a quoted literal or passed as a str.
TextOf(column) == column.s

ObjectiveTuples(rec) ==
    LET rows == SelectSeq(Statements,
                    LAMBDA row : /\ row.table = "quest_objective_texts"
                                 /\ row.quest_id = rec.id)
    IN  [n \in 1..Len(rows) |-> <<rows[n].idx, TextOf(rows[n].objective_text)>>]

\* The non-empty strings of an array with their 0-based positions in it.
PositionedTexts(l) ==
    LET kept == SelectSeq([i \in 1..Len(l) |-> i],
                          LAMBDA i : IsStr(l[i]) /\ l[i].s # <<>>)
    IN  [n \in 1..Len(kept) |-> <<kept[n] - 1, l[kept[n]].s>>]

HoldsTexts(rec, l) ==
    /\ quest_keys[<<"objectivesText">>] \in 1..Len(rec.values)
    /\ rec.values[quest_keys[<<"objectivesText">>]] = ArrayText(l)

\* C18: for every record mapped without error whose objectivesText field is
\* an array, the ObjectiveText tuples written are one per non-empty string
\* element, each with the 0-based position of its element in the array as
\* idx (nil and empty elements before it are counted), and the idx values
\* of the record are pairwise distinct.
C18_ObjectiveTextIndexIsPosition ==
    \A n \in 1..Len(quests) :
        (n <= position /\ ErrorsOf(quests[n]) = <<>>) =>
            \A l \in TextLists :
                HoldsTexts(quests[n], l) =>
                    /\ ObjectiveTuples(quests[n]) = PositionedTexts(l)
                    /\ \A i, j \in 1..Len(ObjectiveTuples(quests[n])) :
                           i # j => ObjectiveTuples(quests[n])[i][1]
                                       # ObjectiveTuples(quests[n])[j][1]

(***************************************************************************)
(* The mapping of one record on its own, and the records a run has mapped. *)
(***************************************************************************)
DirectPath == conn # "none"

\* The statements of the record mapped alone under the field map of the run.
MappedAlone(rec) ==
    IF DirectPath THEN InsRecord(rec.id, rec.values, quest_keys).rows
    ELSE GenRecord(rec.id, rec.values, quest_keys).rows

RunEnded == pc \in {"generated", "inserted", "imported", "failed"}

\* The loop has reached the record n: it is mapped, or it raised.
Reached(n) == n <= position \/ (n = position + 1 /\ raised # "none")

MappingRaises ==
    \E n \in 1..Len(quests) :
        InsRecord(quests[n].id, quests[n].values, quest_keys).error # "none"

\* C23: in direct-database mode, with the connection made and a document
\* that parses and maps without error, the run does not end in the error
\* handler (it creates the tables, inserts every record and commits), and
\* the commit never comes before all records were inserted.
C23_DirectModeReachesCommit ==
    /\ (pc = "failed" /\ conn # "none") => MappingRaises
    /\ conn = "committed" => position = Len(quests)

(***************************************************************************)
(* The value a column has in a statement: the literal the SQL-generation   *)
(* path writes into the text, or the parameter the direct path passes.     *)
(***************************************************************************)
\* The text of the SQL string literal whose content is s: '' stands for '.
RECURSIVE UnescapeQuotes(_)
UnescapeQuotes(s) ==
    IF Len(s) >= 2 /\ s[1] = "'" /\ s[2] = "'"
    THEN <<"'">> \o UnescapeQuotes(SubSeq(s, 3, Len(s)))
    ELSE IF s = <<>> THEN <<>>
    ELSE <<s[1]>> \o UnescapeQuotes(Tail(s))

\* The text of an integer literal.
IsIntegerText(t) == IsDigit(t) \/ (StartsWith(t, <<"-">>) /\ IsDigit(Tail(t)))

\* NULL, or the text of the value: of a string literal, of a str or int
\* parameter, of an integer written bare. An integer and the string of its
\* digits count as the same value. Any other text written bare is no
\* literal of a value.
ColumnValue(column) ==
    IF "sql" \notin DOMAIN column
    THEN (IF IsInt(column) THEN PyStr(IntToChars(column.i)) ELSE column)
    ELSE IF column = SqlNULL THEN None
    ELSE IF column.sql = "quoted" THEN PyStr(UnescapeQuotes(column.s))
    ELSE IF IsIntegerText(PyStrOf(column.v)) THEN PyStr(PyStrOf(column.v))
    ELSE [k |-> "bare", s |-> PyStrOf(column.v)]

RowValues(row) ==
    IF row.table = "quests"
    THEN [f \in DOMAIN row |->
             IF f \in {"table", "id"} THEN row[f] ELSE ColumnValue(row[f])]
    ELSE IF row.table \in {"quest_objective_texts", "quest_objectives"}
    THEN [row EXCEPT !.objective_text = ColumnValue(@)]
    ELSE row

ValuesOf(rows) == [n \in 1..Len(rows) |-> RowValues(rows[n])]

\* The statements of the other sink for the records of the run, when no
\* record raises in it.
OtherSink ==
    Concat([n \in 1..Len(quests) |->
               IF DirectPath
               THEN GenRecord(quests[n].id, quests[n].values, quest_keys).rows
               ELSE InsRecord(quests[n].id, quests[n].values, quest_keys).rows])

NeitherRaises ==
    \A n \in 1..Len(quests) :
        /\ GenRecord(quests[n].id, quests[n].values, quest_keys).error = "none"
        /\ InsRecord(quests[n].id, quests[n].values, quest_keys).error = "none"

\* C25: for records and a field map on which neither sink raises, the rows
\* of the SQL-generation path and of the direct-statement path are the
\* same, in the same order and with the same column values.
C25_SinksAgree ==
    (pc \in {"generated", "inserted"} /\ NeitherRaises) =>
        ValuesOf(Statements) = ValuesOf(OtherSink)

(***************************************************************************)
(* The key of a row of a relation table, as create_tables_sql declares it  *)
(* (lines 186-259).                                                        *)
(***************************************************************************)
RowKey(row) ==
    CASE row.table = "quest_objective_texts" -> <<row.quest_id, row.idx>>
      [] row.table = "quest_starters" ->
             <<row.quest_id, row.starter_type, row.starter_id>>
      [] row.table = "quest_finishers" ->
             <<row.quest_id, row.finisher_type, row.finisher_id>>
      [] row.table = "quest_relationships" ->
             <<row.quest_id, row.relationship_type, row.related_quest_id>>
      [] row.table = "quest_required_items" -> <<row.quest_id, row.item_id>>
      [] row.table = "quest_reputation_rewards" -> <<row.quest_id, row.faction_id>>
      [] row.table = "quest_objectives" ->
             <<row.quest_id, row.objective_type, row.objective_id>>
      [] row.table = "quests" -> <<row.id>>

\* C26: no two rows of the same relation table emitted for a record have
\* the same key, whatever ids the arrays of the record repeat.
C26_RelationRowsAreSets ==
    \A i, j \in 1..Len(Statements) :
        (i < j /\ Statements[i].table = Statements[j].table
               /\ Statements[i].table # "quests")
            => RowKey(Statements[i]) # RowKey(Statements[j])

(***************************************************************************)
(* Lookups of field names in the field map.                                *)
(***************************************************************************)
\* C27: whenever a record is mapped, by either sink, the lookup of every
\* well-known field name in the field map succeeds, for every field map the
\* loader can return: no mapping ends in a KeyError.
C27_LookupsSucceed ==
    /\ raised # "KeyError"
    /\ \A e \in 1..Len(errors) : errors[e].error # "KeyError"

(***************************************************************************)
(* The Objective tuples of a record, as the triples (kind, id, text) in    *)
(* the order they are written, and the triples an objectives array is said *)
(* to give.                                                                *)
(***************************************************************************)
SlotKinds == <<"creature", "object", "item", "reputation", "killcredit">>

WrittenObjectives(rec) ==
    LET rows == SelectSeq(Statements,
                    LAMBDA row : /\ row.table = "quest_objectives"
                                 /\ row.quest_id = rec.id)
    IN  [n \in 1..Len(rows) |->
            <<rows[n].objective_type, rows[n].objective_id,
              ColumnValue(rows[n].objective_text)>>]

\* The entry is an array with an id, a non-zero integer, at its element id_at.
EntryHasId(e, id_at) ==
    IsList(e) /\ Len(e.l) > id_at /\ IsInt(e.l[id_at + 1]) /\ e.l[id_at + 1].i # 0

\* The triple of an entry: the id at id_at, and the element after it as the
\* text when it is a string, no text otherwise.
EntryTuple(kind, e, id_at) ==
    <<kind, e.l[id_at + 1].i,
      IF Len(e.l) > id_at + 1 /\ IsStr(e.l[id_at + 2]) THEN e.l[id_at + 2] ELSE None>>

\* The triples of one slot (0-based) of the array o: none when the slot is
\* absent or is no array.
SlotTuples(o, slot) ==
    IF Len(o) <= slot \/ ~IsList(o[slot + 1]) THEN <<>>
    ELSE IF slot = 3
    THEN (IF EntryHasId(o[4], 0) /\ Len(o[4].l) >= 2
          THEN << <<"reputation", o[4].l[1].i, PyStr(PyStrOf(o[4].l[2]))>> >>
          ELSE <<>>)
    ELSE LET id_at == IF slot = 4 THEN 1 ELSE 0
             kept == SelectSeq(o[slot + 1].l, LAMBDA e : EntryHasId(e, id_at))
         IN  [n \in 1..Len(kept) |-> EntryTuple(SlotKinds[slot + 1], kept[n], id_at)]

ExpectedObjectives(o) ==
    Concat([slot \in 1..NumObjectiveSlots |-> SlotTuples(o, slot - 1)])

\* The reputation slot, when it is a pair, has an integer as its value.
ValuedPair(o) ==
    (Len(o) > 3 /\ IsList(o[4]) /\ Len(o[4].l) >= 2) => IsInt(o[4].l[2])

HoldsObjectives(rec, o) ==
    /\ <<"objectives">> \in DOMAIN quest_keys
    /\ quest_keys[<<"objectives">>] \in 1..Len(rec.values)
    /\ rec.values[quest_keys[<<"objectives">>]] = ArrayText(o)

\* C28: for every record the mapper has been through whose objectives field
\* is an array, no error is raised and the Objective tuples written are, slot
\* by slot, those of its entries: kind creature, object, item for the entries
\* of slots 0, 1, 2 with the first element as id and the second as text, one
\* reputation tuple for the pair of slot 3 with the stringified value as
\* text, kind killcredit for the entries of slot 4 with the second element as
\* id and the third as text; a slot that is absent or no array gives none.
C28_ObjectiveKindIsSlot ==
    \A n \in 1..Len(quests) :
        Mapped(n) =>
            \A o \in ObjectiveArrays :
                (HoldsObjectives(quests[n], o) /\ ValuedPair(o)) =>
                    /\ ErrorsOf(quests[n]) = <<>>
                    /\ WrittenObjectives(quests[n]) = ExpectedObjectives(o)

(***************************************************************************)
(* The field a scalar column of the quests row is read from.               *)
(***************************************************************************)
\* The scalar fields written to one column as they are read.
PlainFields ==
    {key \in DOMAIN ScalarColumns : Cardinality(ScalarColumns[key]) = 1}

ColumnOf(key) == CHOOSE c \in ScalarColumns[key] : TRUE

\* The text of a field value, and no text for nil.
ValueText(v) == IF IsNone(v) THEN None ELSE PyStr(PyStrOf(v))

\* The text a column of a statement was written from.
WrittenText(column) ==
    IF "sql" \notin DOMAIN column THEN ValueText(column)
    ELSE IF column = SqlNULL THEN None
    ELSE IF column.sql = "quoted" THEN PyStr(UnescapeQuotes(column.s))
    ELSE ValueText(column.v)

QuestsRows(rec) == SelectSeq(RowsOf(rec), LAMBDA row : row.table = "quests")

\* C29: for every record the mapper has been through, no lookup raises an
\* IndexError, and each scalar column of its quests row holds the p-th field
\* (1-based) of the record when the position p of its field name is within
\* 1..field count, and NULL for every other p, p = 0 included.
C29_PositionSelectsField ==
    \A n \in 1..Len(quests) :
        Mapped(n) =>
            /\ \A e \in 1..Len(ErrorsOf(quests[n])) :
                   ErrorsOf(quests[n])[e].error # "IndexError"
            /\ \A i \in 1..Len(QuestsRows(quests[n])) :
                   \A key \in PlainFields :
                       <<key>> \in DOMAIN quest_keys =>
                           WrittenText(QuestsRows(quests[n])[i][ColumnOf(key)])
                               = IF quest_keys[<<key>>] \in 1..Len(quests[n].values)
                                 THEN ValueText(quests[n].values[quest_keys[<<key>>]])
                                 ELSE None

(***************************************************************************)
(* Blocks with the same id.                                                *)
(***************************************************************************)
\* The blocks the extractor finds in the bulk-data section, in the order of
\* the document.
MatchedBlocks == FindRecords(SearchQuestData(lua_content).group, 1)

RecordsExtracted ==
    pc \notin {"main", "keys"} /\ SearchQuestData(lua_content).found

\* The block m is the last block of its id.
LastOfId(m) ==
    \A j \in (m + 1)..Len(MatchedBlocks) : MatchedBlocks[j].id # MatchedBlocks[m].id

QuestsRowsOfId(id) ==
    SelectSeq(Statements, LAMBDA row : row.table = "quests" /\ row.id = id)

\* C30: once the records are extracted, the record set has one entry for each
\* id of the blocks of the section, holding the fields of the last block of
\* that id; at most one quests row is written for an id, and exactly one for
\* a record mapped without error.
C30_OneQuestsRowPerId ==
    RecordsExtracted =>
        /\ \A i, j \in 1..Len(quests) : quests[i].id = quests[j].id => i = j
        /\ \A m \in 1..Len(MatchedBlocks) :
               LastOfId(m) =>
                   \E i \in 1..Len(quests) :
                       /\ quests[i].id = IntOfDigits(MatchedBlocks[m].id)
                       /\ quests[i].values =
                              ProcessValues(ScanRecord(MatchedBlocks[m].body).values)
        /\ \A i \in 1..Len(quests) :
               /\ Len(QuestsRowsOfId(quests[i].id)) <= 1
               /\ (i <= position /\ ErrorsOf(quests[i]) = <<>>)
                  => Len(QuestsRowsOfId(quests[i].id)) = 1

\* Two blocks of one id with different fields, extracted as one record and
\* written as one quests row.
C30_Witness ==
    /\ pc = "generated"
    /\ Len(MatchedBlocks) = 2
    /\ MatchedBlocks[1].id = MatchedBlocks[2].id
    /\ MatchedBlocks[1].body # MatchedBlocks[2].body
    /\ Len(quests) = 1
    /\ ScanRecord(MatchedBlocks[1].body).values # ScanRecord(MatchedBlocks[2].body).values
    /\ Len(QuestsRowsOfId(quests[1].id)) = 1

====
